---- MODULE Spec2Model ----
(***************************************************************************)
(* Alumni verification admin screen: CSV roster parsing, name/year         *)
(* matching against the loaded profile rows, bulk verification, and the    *)
(* single-row verify toggle, against a shared profile store.               *)
(*                                                                         *)
(* Strings are sequences of one-character strings.  A null string is the   *)
(* one-element sequence NullStr, a null boolean is "null", a null user id  *)
(* is "null", a null timestamp is NullTime.                                *)
(***************************************************************************)
EXTENDS Integers, Sequences, FiniteSets, TLC

(***************************************************************************)
(* JavaScript string primitives used by the source.                        *)
(***************************************************************************)
Whitespace == {" ", "\t", "\n", "\r"}

LowerOf ==
     ("A" :> "a") @@ ("B" :> "b") @@ ("C" :> "c") @@ ("D" :> "d") @@ ("E" :> "e")
     @@ ("F" :> "f") @@ ("G" :> "g") @@ ("H" :> "h") @@ ("I" :> "i") @@ ("J" :>
     "j") @@ ("K" :> "k") @@ ("L" :> "l") @@ ("M" :> "m") @@ ("N" :> "n") @@ ("O"
     :> "o") @@ ("P" :> "p") @@ ("Q" :> "q") @@ ("R" :> "r") @@ ("S" :> "s") @@
     ("T" :> "t") @@ ("U" :> "u") @@ ("V" :> "v") @@ ("W" :> "w") @@ ("X" :> "x")
     @@ ("Y" :> "y") @@ ("Z" :> "z")

toLowerCase(s) ==
  [i \in 1..Len(s) |-> IF s[i] \in DOMAIN LowerOf THEN LowerOf[s[i]] ELSE s[i]]

RECURSIVE trimStart(_)
trimStart(s) ==
  IF s # <<>> /\ Head(s) \in Whitespace THEN trimStart(Tail(s)) ELSE s

RECURSIVE trimEnd(_)
trimEnd(s) ==
  IF s # <<>> /\ s[Len(s)] \in Whitespace
    THEN trimEnd(SubSeq(s, 1, Len(s) - 1))
    ELSE s

trim(s) == trimEnd(trimStart(s))

\* s.replace(/\s+/g, ' '): every maximal run of whitespace becomes one space.
RECURSIVE collapseFrom(_, _, _)
collapseFrom(s, i, acc) ==
  IF i > Len(s) THEN acc
  ELSE IF s[i] \in Whitespace
    THEN IF i > 1 /\ s[i - 1] \in Whitespace
           THEN collapseFrom(s, i + 1, acc)
           ELSE collapseFrom(s, i + 1, Append(acc, " "))
    ELSE collapseFrom(s, i + 1, Append(acc, s[i]))

\* collapseWhitespace that leaves the runs of whitespace as they are.
keepWhitespace(s) == s

collapseWhitespace(s) == collapseFrom(s, 1, <<>>)

includes(s, c) == \E i \in 1..Len(s) : s[i] = c

\* s.split(d) for a one-character separator d: the pieces between
\* consecutive occurrences of d, in order.
split(s, d) ==
  LET pos    == {i \in 1..Len(s) : s[i] = d}
      n      == Cardinality(pos)
      cut(k) == IF k = 0 THEN 0
                ELSE IF k = n + 1 THEN Len(s) + 1
                ELSE CHOOSE q \in pos : Cardinality({r \in pos : r < q}) = k - 1
  IN  [k \in 1..(n + 1) |-> SubSeq(s, cut(k - 1) + 1, cut(k) - 1)]

\* text.split(/\r?\n/): a "\r" directly before a "\n" belongs to the separator.
splitLines(text) ==
  LET raw == split(text, "\n")
  IN  [k \in 1..Len(raw) |->
         IF k < Len(raw) /\ raw[k] # <<>> /\ raw[k][Len(raw[k])] = "\r"
           THEN SubSeq(raw[k], 1, Len(raw[k]) - 1)
           ELSE raw[k]]

\* p.replace(/^"|"$/g, ''): one leading and one trailing double quote go.
stripQuotes(p) ==
  LET a == IF p # <<>> /\ Head(p) = "\"" THEN Tail(p) ELSE p
  IN  IF a # <<>> /\ a[Len(a)] = "\"" THEN SubSeq(a, 1, Len(a) - 1) ELSE a

\* ls.filter(l => l.length > 0)
RECURSIVE filterNonEmpty(_)
filterNonEmpty(ls) ==
  IF ls = <<>> THEN <<>>
  ELSE IF Len(Head(ls)) > 0 THEN <<Head(ls)>> \o filterNonEmpty(Tail(ls))
  ELSE filterNonEmpty(Tail(ls))

DigitVal ==
  ("0" :> 0) @@ ("1" :> 1) @@ ("2" :> 2) @@ ("3" :> 3) @@ ("4" :> 4) @@
  ("5" :> 5) @@ ("6" :> 6) @@ ("7" :> 7) @@ ("8" :> 8) @@ ("9" :> 9)

DigitChar == <<"0", "1", "2", "3", "4", "5", "6", "7", "8", "9">>

\* parseInt(s, 10): leading whitespace, an optional sign, then the longest
\* prefix of digits; NaN (nan |-> TRUE) when there is no digit.
RECURSIVE digitsPrefix(_, _, _, _)
digitsPrefix(s, i, seen, acc) ==
  IF i <= Len(s) /\ s[i] \in DOMAIN DigitVal
    THEN digitsPrefix(s, i + 1, TRUE, acc * 10 + DigitVal[s[i]])
    ELSE [nan |-> ~seen, val |-> acc]

parseInt(str) ==
  LET s    == trimStart(str)
      neg  == s # <<>> /\ Head(s) = "-"
      body == IF s # <<>> /\ Head(s) \in {"-", "+"} THEN Tail(s) ELSE s
      r    == digitsPrefix(body, 1, FALSE, 0)
  IN  [nan |-> r.nan, val |-> IF neg THEN 0 - r.val ELSE r.val]

\* Template-literal rendering of an integer.
RECURSIVE natToString(_)
natToString(n) ==
  IF n < 10 THEN <<DigitChar[n + 1]>>
  ELSE natToString(n \div 10) \o <<DigitChar[(n % 10) + 1]>>

numberToString(n) == IF n < 0 THEN <<"-">> \o natToString(0 - n) ELSE natToString(n)

(***************************************************************************)
(* Nullable values of a profile row.                                       *)
(***************************************************************************)
NullStr == <<"null">>

NullTime == 0

\* !x for a nullable string: null and '' are falsy.
falsyStr(s) == s = NullStr \/ s = <<>>

\* Template-literal rendering of a nullable string.
strOf(s) == IF s = NullStr THEN <<"n", "u", "l", "l">> ELSE s

(***************************************************************************)
(* normalizeNameParts                                                      *)
(***************************************************************************)
normalizeNameParts(firstOrFull, last) ==
  LET f == toLowerCase(trim(IF falsyStr(firstOrFull) THEN <<>> ELSE firstOrFull))
      l == toLowerCase(trim(IF falsyStr(last) THEN <<>> ELSE last))
      joined == IF f # <<>> /\ l # <<>> THEN f \o <<" ">> \o l
                ELSE IF f # <<>> THEN f ELSE l
  IN  collapseWhitespace(joined)

(***************************************************************************)
(* parseVerificationCsv                                                    *)
(***************************************************************************)
FirstNameHeaders ==
  << <<"f","i","r","s","t"," ","n","a","m","e">>,
     <<"f","i","r","s","t","_","n","a","m","e">>,
     <<"f","i","r","s","t","n","a","m","e">>,
     <<"g","i","v","e","n"," ","n","a","m","e">>,
     <<"g","i","v","e","n","_","n","a","m","e">> >>

LastNameHeaders ==
  << <<"l","a","s","t"," ","n","a","m","e">>,
     <<"l","a","s","t","_","n","a","m","e">>,
     <<"l","a","s","t","n","a","m","e">>,
     <<"s","u","r","n","a","m","e">>,
     <<"f","a","m","i","l","y"," ","n","a","m","e">>,
     <<"f","a","m","i","l","y","_","n","a","m","e">> >>

FullNameHeaders ==
  << <<"f","u","l","l"," ","n","a","m","e">>,
     <<"f","u","l","l","n","a","m","e">>,
     <<"f","u","l","l","_","n","a","m","e">>,
     <<"n","a","m","e">>,
     <<"d","i","s","p","l","a","y","_","f","u","l","l","_","n","a","m","e">> >>

YearHeaders ==
  << <<"y","e","a","r"," ","g","r","a","d","u","a","t","e","d">>,
     <<"y","e","a","r","_","g","r","a","d","u","a","t","e","d">>,
     <<"y","e","a","r","g","r","a","d","u","a","t","e","d">>,
     <<"g","r","a","d","u","a","t","i","o","n","_","y","e","a","r">>,
     <<"y","e","a","r"," ","o","f"," ","g","r","a","d","u","a","t","i","o","n">>,
     <<"y","e","a","r","o","f","g","r","a","d","u","a","t","i","o","n">>,
     <<"g","r","a","d"," ","y","e","a","r">>,
     <<"g","r","a","d","_","y","e","a","r">>,
     <<"b","a","t","c","h">>,
     <<"b","a","t","c","h"," ","y","e","a","r">>,
     <<"b","a","t","c","h","_","y","e","a","r">>,
     <<"y","e","a","r">> >>

\* headers.findIndex(h => candidates.includes(h)): 0-based, -1 when absent.
RECURSIVE findIndexFrom(_, _, _)
findIndexFrom(headers, candidates, i) ==
  IF i > Len(headers) THEN -1
  ELSE IF \E k \in 1..Len(candidates) : candidates[k] = headers[i] THEN i - 1
  ELSE findIndexFrom(headers, candidates, i + 1)

findIndex(headers, candidates) == findIndexFrom(headers, candidates, 1)

\* inferDelimiter that takes ';' whenever the header holds one.
inferDelimiterAnySemicolon(headerLine) ==
  IF includes(headerLine, ";") THEN ";"
  ELSE IF includes(headerLine, "\t") /\ ~includes(headerLine, ",") THEN "\t"
  ELSE ","

inferDelimiter(headerLine) ==
  IF includes(headerLine, ";") /\ ~includes(headerLine, ",") THEN ";"
  ELSE IF includes(headerLine, "\t") /\ ~includes(headerLine, ",") THEN "\t"
  ELSE ","

splitLine(line, delimiter) ==
  LET ps == split(line, delimiter)
  IN  [k \in 1..Len(ps) |-> stripQuotes(trim(ps[k]))]

nonEmptyLines(text) ==
  LET ls == splitLines(text)
      tr == [k \in 1..Len(ls) |-> trim(ls[k])]
  IN  filterNonEmpty(tr)

maxOf(S) == CHOOSE m \in S : \A x \in S : x <= m

\* rowRecord without the test of the empty name.
rowRecordAnyName(parts, idxYear, idxFull, idxFirst, idxLast, maxIdx) ==
  IF Len(parts) <= maxIdx THEN <<>>
  ELSE
    LET year == parseInt(trim(parts[idxYear + 1]))
        fromFull == IF idxFull # -1 THEN trim(parts[idxFull + 1]) ELSE <<>>
        fullName ==
          IF fromFull = <<>> /\ idxFirst # -1 /\ idxLast # -1
            THEN trim(trim(parts[idxFirst + 1]) \o <<" ">> \o trim(parts[idxLast + 1]))
            ELSE fromFull
    IN  IF year.nan THEN <<>>
        ELSE << [fullName |-> fullName, year |-> year.val] >>

\* rowRecord that joins the first and last name only when the header has no
\* full name column.
rowRecordNoFallback(parts, idxYear, idxFull, idxFirst, idxLast, maxIdx) ==
  IF Len(parts) <= maxIdx THEN <<>>
  ELSE
    LET year == parseInt(trim(parts[idxYear + 1]))
        fullName ==
          IF idxFull # -1 THEN trim(parts[idxFull + 1])
          ELSE IF idxFirst # -1 /\ idxLast # -1
            THEN trim(trim(parts[idxFirst + 1]) \o <<" ">> \o trim(parts[idxLast + 1]))
            ELSE <<>>
    IN  IF fullName = <<>> \/ year.nan THEN <<>>
        ELSE << [fullName |-> fullName, year |-> year.val] >>

\* The loop body of the data rows: the record a row yields, or <<>> when the
\* row is skipped.
rowRecord(parts, idxYear, idxFull, idxFirst, idxLast, maxIdx) ==
  IF Len(parts) <= maxIdx THEN <<>>
  ELSE
    LET year == parseInt(trim(parts[idxYear + 1]))
        fromFull == IF idxFull # -1 THEN trim(parts[idxFull + 1]) ELSE <<>>
        fullName ==
          IF fromFull = <<>> /\ idxFirst # -1 /\ idxLast # -1
            THEN trim(trim(parts[idxFirst + 1]) \o <<" ">> \o trim(parts[idxLast + 1]))
            ELSE fromFull
    IN  IF fullName = <<>> \/ year.nan THEN <<>>
        ELSE << [fullName |-> fullName, year |-> year.val] >>

\* parseRows that puts each record before the ones of the earlier rows.
RECURSIVE parseRowsPrepend(_, _, _, _, _, _, _, _, _)
parseRowsPrepend(lines, i, delimiter, idxYear, idxFull, idxFirst, idxLast, maxIdx, records) ==
  IF i > Len(lines) THEN records
  ELSE parseRowsPrepend(lines, i + 1, delimiter, idxYear, idxFull, idxFirst, idxLast, maxIdx,
                        rowRecord(splitLine(lines[i], delimiter),
                                  idxYear, idxFull, idxFirst, idxLast, maxIdx) \o records)

RECURSIVE parseRows(_, _, _, _, _, _, _, _, _)
parseRows(lines, i, delimiter, idxYear, idxFull, idxFirst, idxLast, maxIdx, records) ==
  IF i > Len(lines) THEN records
  ELSE parseRows(lines, i + 1, delimiter, idxYear, idxFull, idxFirst, idxLast, maxIdx,
                 records \o rowRecord(splitLine(lines[i], delimiter),
                                      idxYear, idxFull, idxFirst, idxLast, maxIdx))

\* The stages of parseVerificationCsv, each taking what the earlier ones
\* computed: the resolved columns, the headers, the delimiter, the lines.
parseColumns(lines, delimiter, idxYear, idxFull, idxFirst, idxLast) ==
  IF idxYear = -1 THEN <<>>
  ELSE IF idxFull = -1 /\ (idxFirst = -1 \/ idxLast = -1) THEN <<>>
  ELSE parseRows(lines, 2, delimiter, idxYear, idxFull, idxFirst, idxLast,
                 maxOf({i \in {idxYear, idxFull, idxFirst, idxLast} : i >= 0}), <<>>)

parseHeaders(lines, delimiter, headers) ==
  parseColumns(lines, delimiter,
               findIndex(headers, YearHeaders), findIndex(headers, FullNameHeaders),
               findIndex(headers, FirstNameHeaders), findIndex(headers, LastNameHeaders))

lowerAll(hs) == [k \in 1..Len(hs) |-> toLowerCase(hs[k])]

parseDelimited(lines, delimiter) ==
  parseHeaders(lines, delimiter, lowerAll(splitLine(lines[1], delimiter)))

parseLines(lines) ==
  IF Len(lines) < 2 THEN <<>> ELSE parseDelimited(lines, inferDelimiter(lines[1]))

parseVerificationCsv(text) == parseLines(nonEmptyLines(text))

(***************************************************************************)
(* Matching of parsed CSV records against the loaded rows (the synchronous *)
(* middle of handleCsvUpload).                                             *)
(***************************************************************************)
NullYear == -1

\* !r.graduation_year: null and 0 are falsy.
falsyYear(y) == y = NullYear \/ y = 0

yearToString(y) == IF y = NullYear THEN <<"n", "u", "l", "l">> ELSE numberToString(y)

\* rowEligible without the test of the graduation year.
rowEligibleNoYear(r) == ~falsyStr(r.first_name) /\ ~falsyStr(r.last_name)

\* The early return of the rows.forEach callback.
rowEligible(r) ==
  ~falsyStr(r.first_name) /\ ~falsyStr(r.last_name) /\ ~falsyYear(r.graduation_year)

rowKey(r) ==
  normalizeNameParts(strOf(r.first_name) \o <<" ">> \o strOf(r.last_name), NullStr)
    \o <<"|">> \o yearToString(r.graduation_year)

\* recordKey without the normalization of the CSV name.
recordKeyRaw(rec) == rec.fullName \o <<"|">> \o numberToString(rec.year)

recordKey(rec) ==
  normalizeNameParts(rec.fullName, NullStr) \o <<"|">> \o numberToString(rec.year)

\* map.set(key, r)
\* mapSet that keeps the entry a key already has.
mapSetKeepFirst(m, k, v) ==
  IF k \in DOMAIN m THEN m ELSE (k :> v) @@ m

mapSet(m, k, v) == [x \in (DOMAIN m) \cup {k} |-> IF x = k THEN v ELSE m[x]]

RECURSIVE buildIndexFrom(_, _, _)
buildIndexFrom(rs, i, m) ==
  IF i > Len(rs) THEN m
  ELSE buildIndexFrom(rs, i + 1,
         IF rowEligible(rs[i]) THEN mapSet(m, rowKey(rs[i]), rs[i]) ELSE m)

buildIndex(rs) == buildIndexFrom(rs, 1, <<>>)

\* matchStep without the alreadyVerified++.
matchStepNoCount(acc, rec, m) ==
  LET key == recordKey(rec)
  IN  IF key \notin DOMAIN m \/ m[key].is_verified = "true" THEN acc
      ELSE [acc EXCEPT !.toVerify = Append(@, m[key])]

\* matchStep without the return that follows alreadyVerified++.
matchStepFallThrough(acc, rec, m) ==
  LET key == recordKey(rec)
  IN  IF key \notin DOMAIN m THEN acc
      ELSE IF m[key].is_verified = "true"
        THEN [acc EXCEPT !.alreadyVerified = @ + 1, !.toVerify = Append(@, m[key])]
        ELSE [acc EXCEPT !.toVerify = Append(@, m[key])]

\* The body of the parsed.forEach callback.
matchStep(acc, rec, m) ==
  LET key == recordKey(rec)
  IN  IF key \notin DOMAIN m THEN acc
      ELSE IF m[key].is_verified = "true"
        THEN [acc EXCEPT !.alreadyVerified = @ + 1]
        ELSE [acc EXCEPT !.toVerify = Append(@, m[key])]

RECURSIVE matchFrom(_, _, _, _)
matchFrom(parsed, i, m, acc) ==
  IF i > Len(parsed) THEN acc
  ELSE matchFrom(parsed, i + 1, m, matchStep(acc, parsed[i], m))

matchRecords(rs, parsed) ==
  matchFrom(parsed, 1, buildIndex(rs), [toVerify |-> <<>>, alreadyVerified |-> 0])

idsOf(rs) == [k \in 1..Len(rs) |-> rs[k].id]

inSeq(x, s) == \E k \in 1..Len(s) : s[k] = x

\* applyPayload without the test of the id: every row takes the payload.
applyPayloadAll(rs, ids, payload) ==
  [k \in 1..Len(rs) |->
     [rs[k] EXCEPT !.is_verified = payload.is_verified,
                   !.verified_at = payload.verified_at,
                   !.verified_by = payload.verified_by]]

\* prev.map(r => ids.includes(r.id) ? { ...r, ...payload } : r), also the
\* effect of update(payload).in('id', ids) on the table.
applyPayload(rs, ids, payload) ==
  [k \in 1..Len(rs) |->
     IF inSeq(rs[k].id, ids)
       THEN [rs[k] EXCEPT !.is_verified = payload.is_verified,
                          !.verified_at = payload.verified_at,
                          !.verified_by = payload.verified_by]
       ELSE rs[k]]

(***************************************************************************)
(* Inputs: the profile tables the store may hold when the page is opened,  *)
(* and the files the administrator may pick.                               *)
(***************************************************************************)
Person(id, first, last, year) ==
  [id |-> id, first_name |-> first, last_name |-> last, graduation_year |-> year]

\* Each list is in the order of the select: ascending last_name, nulls last.
ProfileLists ==
  { << Person("p1", <<"J","a","n","e">>, <<"D","o","e">>, 2020), Person("p2", <<"A","n","n">>, <<"L","e","e">>, 2021) >>,
    << Person("p1", <<"J","a","n","e">>, <<"D","o","e">>, 2020), Person("p2", <<" ","J","A","N","E">>, <<"d","o","e"," ">>, 2020) >>,
    << Person("p1", <<"A","n","n">>, <<"L","e","e">>, 2021), Person("p2", <<>>, <<"R","o","e">>, 2021) >>,
    << Person("p1", <<"A","n","n">>, <<"L","e","e">>, 0), Person("p2", NullStr, <<"R","o","e">>, 2021) >>,
    << Person("p1", <<"J","a","n","e">>, <<"D","o","e">>, 2020), Person("p2", <<"B","o","b">>, <<"R","a","y">>, NullYear) >>,
    << Person("p1", <<"A","n","n">>, <<"L","e","e">>, 2021), Person("p2", <<"J","a","n","e">>, NullStr, 2020) >> }

Flags == {"true", "false", "null"}

\* The row of a person under a verification flag: a verified row was
\* verified before the page was opened, by another administrator.
InitialRow(p, flag) ==
  [id |-> p.id, first_name |-> p.first_name, last_name |-> p.last_name,
   graduation_year |-> p.graduation_year, is_verified |-> flag,
   verified_at |-> IF flag = "true" THEN 1 ELSE NullTime,
   verified_by |-> IF flag = "true" THEN "admin2" ELSE "null"]

FileText ==
  ("roster.csv" :> <<"F","u","l","l"," ","N","a","m","e",",","Y","e","a","r"," ","G","r","a","d","u","a","t","e","d","\n","j","a","n","e"," "," "," ","d","o","e",",","2","0","2","0","\n">>) @@
  ("batch.csv" :> <<"N","a","m","e",";","B","a","t","c","h","\r","\n","J","a","n","e"," ","D","o","e",";","2","0","2","0","\r","\n","J","A","N","E"," "," ","D","O","E",";","2","0","2","0","\r","\n","A","n","n"," ","L","e","e",";","2","0","2","1","\r","\n","R","o","e",";","2","0","2","1","\r","\n","n","u","l","l"," ","r","o","e",";","2","0","2","1","\r","\n","A","n","n"," ","L","e","e",";","0","\r","\n","J","o","n"," ","D","o","e",";","2","0","2","0","\r","\n","B","o","b"," ","R","a","y",";","N","/","A","\r","\n">>) @@
  ("split.csv" :> <<"F","i","r","s","t"," ","N","a","m","e",",","L","a","s","t"," ","N","a","m","e",",","Y","e","a","r","\n","A","n","n",",","L","e","e",",","2","0","2","1","\n","J","a","n","e",",","D","o","e",",","2","0","2","1","\n">>) @@
  ("courses.csv" :> <<"N","a","m","e",",","C","o","u","r","s","e","\n","J","a","n","e"," ","D","o","e",",","C","S","\n">>)

FileNames == DOMAIN FileText

ParsedOf == [f \in FileNames |-> parseVerificationCsv(FileText[f])]

(***************************************************************************)
(* State.                                                                  *)
(*   store, activityLog   the profiles and activity_logs tables            *)
(*   rows .. savingId     the React state of AlumniVerificationAdmin       *)
(*   csv                  the handleCsvUpload call in flight: its position, *)
(*                        its closure and locals, and the requests it has  *)
(*                        sent (IdleCsv when none is in flight)            *)
(*   toggles              the toggleVerify calls in flight                 *)
(*   now                  the clock read by new Date()                     *)
(*   ops                  operations started so far, by this               *)
(*                        administrator or by other clients of the store   *)
(*   repeatOf             the file of the last upload whose bulk update    *)
(*                        reached the store, while no reload and no write  *)
(*                        of another client has happened since ("none"     *)
(*                        otherwise)                                       *)
(*   doc                  the document on the administrator's disk, for    *)
(*                        the uploads whose file content is drawn from a   *)
(*                        bounded set of documents (NoDoc when the files   *)
(*                        are those of FileText)                           *)
(***************************************************************************)
VARIABLES store, activityLog, rows, loading, error, csvProcessing, csvMessage,
          savingId, csv, toggles, now, ops, repeatOf, doc, auth, dash, ann

vars == << store, activityLog, rows, loading, error, csvProcessing, csvMessage,
           savingId, csv, toggles, now, ops, repeatOf, doc, auth, dash, ann >>

MaxOps == 3

NoDoc == [header |-> <<>>, delimiter |-> ",", eol |-> <<"\n">>, rows |-> <<>>]

NoPayload == [is_verified |-> "null", verified_at |-> NullTime, verified_by |-> "null"]

NoCalls == [getUser |-> 0, update |-> 0, audit |-> 0]

NoMessage == [kind |-> "null", verified |-> 0, already |-> 0]

IdleCsv ==
  [pc |-> "idle", file |-> "none", rows |-> <<>>, toVerify |-> <<>>,
   alreadyVerified |-> 0, ids |-> <<>>, payload |-> NoPayload, calls |-> NoCalls,
   repeat |-> FALSE]

\* The login page before any submit: no token saved, no session.
NoAuth ==
  [token |-> "none", remember |-> FALSE, session |-> "none", route |-> "login",
   logins |-> <<>>, error |-> "null", count |-> 0, logout |-> FALSE]

\* The dashboard before it is mounted.
NoDash ==
  [mounted |-> FALSE, subscribed |-> FALSE, table |-> <<>>, storage |-> <<>>,
   markers |-> <<>>, loads |-> <<>>, loadError |-> "null", started |-> 0,
   timers |-> {}, ref |-> 0, nextId |-> 1, events |-> 0, sinceEvent |-> 0,
   reloads |-> 0]

\* AnnouncementsAdmin before its first load: no rows, the dialog closed, the
\* empty form, no announcement being edited (editing = null is the row of id
\* 0), no save in flight, no request sent (sent keeps every insert and update
\* issued, with the form and the row its save was started from).  clock is the value new Date()
\* would give; the stored publication times lie before it.
NoAnn ==
  [table |-> <<>>, rows |-> {}, loading |-> FALSE, error |-> "null",
   dlgOpen |-> FALSE,
   editing |-> [id |-> 0, published |-> FALSE, published_at |-> NullTime,
                post_url |-> NullStr],
   form |-> [published |-> FALSE, post_url |-> <<>>],
   calls |-> <<>>, sent |-> <<>>, clock |-> 2]

\* The state of AlumniVerificationAdmin.
adminVars == << store, activityLog, rows, loading, error, csvProcessing, csvMessage,
                savingId, csv, toggles, now, ops, repeatOf, doc >>

\* AlumniVerificationAdmin is not mounted.
AdminIdle ==
  /\ store = <<>>
  /\ activityLog = <<>>
  /\ rows = <<>>
  /\ loading = FALSE
  /\ error = "null"
  /\ csvProcessing = FALSE
  /\ csvMessage = NoMessage
  /\ savingId = "null"
  /\ csv = IdleCsv
  /\ toggles = <<>>
  /\ now = 2
  /\ ops = 0
  /\ repeatOf = "none"
  /\ doc = NoDoc

(***************************************************************************)
(* Documents: the files whose content is drawn from a bounded set.  A      *)
(* document is written as a header of column labels and data rows of       *)
(* cells, joined by a delimiter and ended by a line terminator.  The       *)
(* header records which column was written as the full name, the first     *)
(* name, the last name and the year (0-based, -1 when not written).        *)
(***************************************************************************)
MaxRows == 2

Header(labels, full, first, last, year) ==
  [labels |-> labels, full |-> full, first |-> first, last |-> last, year |-> year]

HeaderKinds ==
  { Header(<< <<"N","a","m","e">>, <<"B","a","t","c","h">> >>, 0, -1, -1, 1),
    Header(<< <<"F","i","r","s","t"," ","N","a","m","e">>, <<"L","a","s","t"," ","N","a","m","e">>, <<"Y","e","a","r">> >>, -1, 0, 1, 2),
    Header(<< <<"F","u","l","l"," ","N","a","m","e">>, <<"F","i","r","s","t"," ","N","a","m","e">>, <<"L","a","s","t"," ","N","a","m","e">>, <<"Y","e","a","r"," ","G","r","a","d","u","a","t","e","d">> >>, 0, 1, 2, 3),
    Header(<< <<"N","a","m","e">>, <<"C","o","u","r","s","e">> >>, 0, -1, -1, -1),
    Header(<< <<"F","i","r","s","t"," ","N","a","m","e">>, <<"Y","e","a","r">> >>, -1, 0, -1, 1),
    Header(<< <<"Y","E","A","R">>, <<"C","o","u","r","s","e">>, <<"\"","N","a","m","e","\"">> >>, 2, -1, -1, 0),
    Header(<< <<"N","a","m","e">>, <<"Y","e","a","r">>, <<"N","o","t","e",";",","," ","e","t","c">> >>, 0, -1, -1, 1) }

\* A data row as written: the cell of each kind of column, and the number of
\* trailing cells left out.
DataRow(full, first, last, year, cut) ==
  [full |-> full, first |-> first, last |-> last, year |-> year, cut |-> cut]

RowChoices ==
  { DataRow(<<"J","a","n","e"," ","D","o","e">>, <<"J","a","n","e","t">>, <<"D","o","e">>, <<"2","0","2","0">>, 0),
    DataRow(<<>>, <<" ","A","n","n">>, <<"L","e","e"," ">>, <<"2","0","2","1">>, 0),
    DataRow(<<"B","o","b"," ","R","a","y">>, <<"B","o","b">>, <<"R","a","y">>, <<"N","/","A">>, 0),
    DataRow(<<>>, <<>>, <<>>, <<"2","0","1","9">>, 0),
    DataRow(<<"J","o"," ","P","o","e">>, <<"J","o">>, <<"P","o","e">>, <<"2","0","2","2">>, 1),
    DataRow(<<"R","o","e",","," ","A","l">>, <<"A","l">>, <<"R","o","e">>, <<"2","0","2","3">>, 0) }

OtherCell == <<"C","S">>

Delimiters == {",", ";", "\t"}

\* Semicolon-separated documents are written with CRLF line ends.
eolOf(d) == IF d = ";" THEN <<"\r", "\n">> ELSE <<"\n">>

Document(h, d, rs) == [header |-> h, delimiter |-> d, eol |-> eolOf(d), rows |-> rs]

RowLists == UNION { [1..n -> RowChoices] : n \in 0..MaxRows }

Docs == { Document(h, d, rs) : h \in HeaderKinds, d \in Delimiters, rs \in RowLists }

\* The cell written in column k (1-based) of a row.
cellAt(h, r, k) ==
  IF k - 1 = h.full THEN r.full
  ELSE IF k - 1 = h.first THEN r.first
  ELSE IF k - 1 = h.last THEN r.last
  ELSE IF k - 1 = h.year THEN r.year
  ELSE OtherCell

cellsOf(h, r) == [k \in 1..(Len(h.labels) - r.cut) |-> cellAt(h, r, k)]

RECURSIVE joinCellsFrom(_, _, _)
joinCellsFrom(cells, d, i) ==
  IF i > Len(cells) THEN <<>>
  ELSE (IF i > 1 THEN <<d>> ELSE <<>>) \o cells[i] \o joinCellsFrom(cells, d, i + 1)

joinCells(cells, d) == joinCellsFrom(cells, d, 1)

RECURSIVE renderRows(_, _)
renderRows(d, i) ==
  IF i > Len(d.rows) THEN <<>>
  ELSE joinCells(cellsOf(d.header, d.rows[i]), d.delimiter) \o d.eol \o renderRows(d, i + 1)

\* The text of the file: what file.text() resolves to.
Render(d) == joinCells(d.header.labels, d.delimiter) \o d.eol \o renderRows(d, 1)


\* After construction: empty component state, and the mount effect has
\* called load(), whose select is in flight.
Init ==
  /\ \E ps \in ProfileLists : \E fl \in [1..Len(ps) -> Flags] :
       store = [k \in 1..Len(ps) |-> InitialRow(ps[k], fl[k])]
  /\ activityLog = <<>>
  /\ rows = <<>>
  /\ loading = TRUE
  /\ error = "null"
  /\ csvProcessing = FALSE
  /\ csvMessage = NoMessage
  /\ savingId = "null"
  /\ csv = IdleCsv
  /\ toggles = <<>>
  /\ now = 2
  /\ ops = 0
  /\ repeatOf = "none"
  /\ doc = NoDoc
  /\ auth = NoAuth
  /\ dash = NoDash
  /\ ann = NoAnn

(***************************************************************************)
(* load                                                                    *)
(***************************************************************************)
\* The Reload button (disabled while loading): load() up to its await.
LoadClick ==
  /\ ~loading
  /\ ops < MaxOps
  /\ loading' = TRUE
  /\ error' = "null"
  /\ ops' = ops + 1
  /\ repeatOf' = "none"
  /\ UNCHANGED << auth, dash, ann, doc, store, activityLog, rows, csvProcessing, csvMessage, savingId,
                  csv, toggles, now >>

\* The select returns its rows.
LoadDone ==
  /\ loading
  /\ rows' = store
  /\ loading' = FALSE
  /\ repeatOf' = "none"
  /\ UNCHANGED << auth, dash, ann, doc, store, activityLog, error, csvProcessing, csvMessage, savingId,
                  csv, toggles, now, ops >>

\* The select returns an error.
LoadFail ==
  /\ loading
  /\ error' = "Failed to load"
  /\ loading' = FALSE
  /\ repeatOf' = "none"
  /\ UNCHANGED << auth, dash, ann, doc, store, activityLog, rows, csvProcessing, csvMessage, savingId,
                  csv, toggles, now, ops >>

(***************************************************************************)
(* handleCsvUpload.  The error shown is the message of the error caught:   *)
(* one message for each call that can fail.                                *)
(***************************************************************************)
\* A file is picked (the control is disabled while loading or processing):
\* the handler up to await file.text().  The closure holds the rows of the
\* render the control belongs to.
CsvPick(f) ==
  /\ ~loading
  /\ ~csvProcessing
  /\ ops < MaxOps
  /\ error' = "null"
  /\ csvMessage' = NoMessage
  /\ csvProcessing' = TRUE
  /\ csv' = [IdleCsv EXCEPT !.pc = "read", !.file = f, !.rows = rows,
                            !.repeat = (repeatOf = f)]
  /\ ops' = ops + 1
  /\ UNCHANGED << auth, dash, ann, doc, store, activityLog, rows, loading, savingId, toggles, now,
                  repeatOf >>

\* csvAfterMatch without the early return on an empty toVerify.
csvAfterMatchNoReturn(m) ==
  /\ csv' = [csv EXCEPT !.pc = "getUser", !.toVerify = m.toVerify,
                        !.alreadyVerified = m.alreadyVerified,
                        !.calls.getUser = @ + 1]
  /\ UNCHANGED << error, csvMessage, csvProcessing, repeatOf >>

\* After the matching loop with result m: the early return when nothing is
\* to verify, else the call of supabase.auth.getUser().
csvAfterMatch(m) ==
  IF Len(m.toVerify) = 0
    THEN /\ csvMessage' = [kind |-> "No matching pending alumni", verified |-> 0,
                           already |-> m.alreadyVerified]
         /\ csvProcessing' = FALSE
         /\ csv' = IdleCsv
         /\ repeatOf' = "none"
         /\ UNCHANGED error
    ELSE /\ csv' = [csv EXCEPT !.pc = "getUser", !.toVerify = m.toVerify,
                               !.alreadyVerified = m.alreadyVerified,
                               !.calls.getUser = @ + 1]
         /\ UNCHANGED << error, csvMessage, csvProcessing, repeatOf >>

\* csvAfterParse without the early return on an empty result.
csvAfterParseNoReturn(parsed) == csvAfterMatch(matchRecords(csv.rows, parsed))

\* csvAfterParse whose early return on an empty result skips the finally
\* block.
csvAfterParseKeepsFlag(parsed) ==
  IF Len(parsed) = 0
    THEN /\ error' = "CSV is empty or missing required columns"
         /\ csv' = IdleCsv
         /\ repeatOf' = "none"
         /\ UNCHANGED << csvMessage, csvProcessing >>
    ELSE csvAfterMatch(matchRecords(csv.rows, parsed))

\* After parsing: the early return on an empty result, else the index is
\* built from the rows of the closure and the records are matched.
csvAfterParse(parsed) ==
  IF Len(parsed) = 0
    THEN /\ error' = "CSV is empty or missing required columns"
         /\ csvProcessing' = FALSE
         /\ csv' = IdleCsv
         /\ repeatOf' = "none"
         /\ UNCHANGED csvMessage
    ELSE csvAfterMatch(matchRecords(csv.rows, parsed))

\* file.text() resolves: parse, match, and return early or go on.
CsvRead ==
  /\ csv.pc = "read"
  /\ csvAfterParse(ParsedOf[csv.file])
  /\ UNCHANGED << auth, dash, ann, doc, store, activityLog, rows, loading, savingId, toggles, now, ops >>

\* file.text() rejects.
CsvReadFail ==
  /\ csv.pc = "read"
  /\ error' = "file read error"
  /\ csvProcessing' = FALSE
  /\ csv' = IdleCsv
  /\ repeatOf' = "none"
  /\ UNCHANGED << auth, dash, ann, doc, store, activityLog, rows, loading, csvMessage, savingId, toggles,
                  now, ops >>

\* CsvGetUser with the rows in memory changed before the update is confirmed.
CsvGetUserOptimistic ==
  /\ csv.pc = "getUser"
  /\ csv' = [csv EXCEPT !.pc = "update",
                        !.payload = [is_verified |-> "true", verified_at |-> now,
                                     verified_by |-> "admin1"],
                        !.ids = idsOf(csv.toVerify),
                        !.calls.update = @ + 1]
  /\ rows' = applyPayload(rows, idsOf(csv.toVerify),
                          [is_verified |-> "true", verified_at |-> now,
                           verified_by |-> "admin1"])
  /\ now' = now + 1
  /\ UNCHANGED << auth, dash, ann, doc, store, activityLog, loading, error, csvProcessing, csvMessage,
                  savingId, toggles, ops, repeatOf >>

\* getUser() returns the signed-in administrator: build the payload and the
\* id list and send the bulk update.
CsvGetUser ==
  /\ csv.pc = "getUser"
  /\ csv' = [csv EXCEPT !.pc = "update",
                        !.payload = [is_verified |-> "true", verified_at |-> now,
                                     verified_by |-> "admin1"],
                        !.ids = idsOf(csv.toVerify),
                        !.calls.update = @ + 1]
  /\ now' = now + 1
  /\ UNCHANGED << auth, dash, ann, doc, store, activityLog, rows, loading, error, csvProcessing, csvMessage,
                  savingId, toggles, ops, repeatOf >>

\* getUser() returns an error, which is thrown.
CsvGetUserFail ==
  /\ csv.pc = "getUser"
  /\ error' = "user lookup error"
  /\ csvProcessing' = FALSE
  /\ csv' = IdleCsv
  /\ repeatOf' = "none"
  /\ UNCHANGED << auth, dash, ann, doc, store, activityLog, rows, loading, csvMessage, savingId, toggles,
                  now, ops >>

\* The bulk update is applied by the store and returns; logActivity is called.
CsvUpdate ==
  /\ csv.pc = "update"
  /\ store' = applyPayload(store, csv.ids, csv.payload)
  /\ csv' = [csv EXCEPT !.pc = "audit", !.calls.audit = @ + 1]
  /\ repeatOf' = csv.file
  /\ UNCHANGED << auth, dash, ann, doc, activityLog, rows, loading, error, csvProcessing, csvMessage,
                  savingId, toggles, now, ops >>

\* The bulk update returns an error, which is thrown.
CsvUpdateFail ==
  /\ csv.pc = "update"
  /\ error' = "bulk update error"
  /\ csvProcessing' = FALSE
  /\ csv' = IdleCsv
  /\ repeatOf' = "none"
  /\ UNCHANGED << auth, dash, ann, doc, store, activityLog, rows, loading, csvMessage, savingId, toggles,
                  now, ops >>

\* The entry logActivity writes for a bulk verification.
bulkAuditEntry(c) ==
  [action |-> "Bulk Verify Alumni (CSV)", verified_count |-> Len(c.ids),
   already_verified |-> c.alreadyVerified, file_name |-> c.file, alumni_id |-> "null"]

\* logActivity resolves: the rows in memory take the payload and the summary
\* is shown.
CsvAudit ==
  /\ csv.pc = "audit"
  /\ activityLog' = Append(activityLog, bulkAuditEntry(csv))
  /\ rows' = applyPayload(rows, csv.ids, csv.payload)
  /\ csvMessage' = [kind |-> "Successfully verified", verified |-> Len(csv.ids),
                    already |-> csv.alreadyVerified]
  /\ csvProcessing' = FALSE
  /\ csv' = IdleCsv
  /\ UNCHANGED << auth, dash, ann, doc, store, loading, error, savingId, toggles, now, ops, repeatOf >>

\* logActivity rejects: the catch block runs instead of setRows.
CsvAuditFail ==
  /\ csv.pc = "audit"
  /\ error' = "activity log error"
  /\ csvProcessing' = FALSE
  /\ csv' = IdleCsv
  /\ UNCHANGED << auth, dash, ann, doc, store, activityLog, rows, loading, csvMessage, savingId, toggles,
                  now, ops, repeatOf >>

(***************************************************************************)
(* toggleVerify                                                            *)
(***************************************************************************)
removeAt(s, i) == SubSeq(s, 1, i - 1) \o SubSeq(s, i + 1, Len(s))

\* The catch block without its revert.
revertRowKeep(rs, r) == rs

\* prev.map(x => x.id === r.id ? r : x)
revertRow(rs, r) == [k \in 1..Len(rs) |-> IF rs[k].id = r.id THEN r ELSE rs[k]]

togglePayload(t, adminId, at) ==
  [is_verified |-> t.next,
   verified_at |-> IF t.next = "true" THEN at ELSE NullTime,
   verified_by |-> IF t.next = "true" THEN adminId ELSE "null"]

\* The button of row k (disabled while savingId is the row's id): the
\* handler up to await getUser(), with the optimistic change of the row.
ToggleClick(k) ==
  /\ k \in 1..Len(rows)
  /\ savingId # rows[k].id
  /\ ops < MaxOps
  /\ LET r    == rows[k]
         next == IF r.is_verified = "true" THEN "false" ELSE "true"
     IN  /\ savingId' = r.id
         /\ rows' = [j \in 1..Len(rows) |->
                       IF rows[j].id = r.id
                         THEN [rows[j] EXCEPT
                                 !.is_verified = next,
                                 !.verified_at = IF next = "true" THEN now ELSE NullTime]
                         ELSE rows[j]]
         /\ now' = IF next = "true" THEN now + 1 ELSE now
         /\ toggles' = Append(toggles, [r |-> r, next |-> next, pc |-> "update"])
  /\ ops' = ops + 1
  /\ repeatOf' = "none"
  /\ UNCHANGED << auth, dash, ann, doc, store, activityLog, loading, error, csvProcessing, csvMessage, csv >>

\* getUser() returns (its error is not looked at: the user id is then null)
\* and the update of the one row is applied by the store.
ToggleUpdate(i, adminId) ==
  /\ i \in 1..Len(toggles)
  /\ toggles[i].pc = "update"
  /\ LET t == toggles[i]
     IN  /\ store' = applyPayload(store, <<t.r.id>>, togglePayload(t, adminId, now))
         /\ now' = IF t.next = "true" THEN now + 1 ELSE now
         /\ toggles' = [toggles EXCEPT ![i].pc = "audit"]
  /\ repeatOf' = "none"
  /\ UNCHANGED << auth, dash, ann, doc, activityLog, rows, loading, error, csvProcessing, csvMessage,
                  savingId, csv, ops >>

\* The update returns an error: the catch block reverts the row.
ToggleUpdateFail(i) ==
  /\ i \in 1..Len(toggles)
  /\ toggles[i].pc = "update"
  /\ error' = "Update failed"
  /\ rows' = revertRow(rows, toggles[i].r)
  /\ savingId' = "null"
  /\ toggles' = removeAt(toggles, i)
  /\ now' = IF toggles[i].next = "true" THEN now + 1 ELSE now
  /\ repeatOf' = "none"
  /\ UNCHANGED << auth, dash, ann, doc, store, activityLog, loading, csvProcessing, csvMessage, csv, ops >>

toggleAuditEntry(t) ==
  [action |-> IF t.next = "true" THEN "Verify Alumni" ELSE "Unverify Alumni",
   verified_count |-> 0, already_verified |-> 0, file_name |-> "none",
   alumni_id |-> t.r.id]

\* logActivity resolves.
ToggleAudit(i) ==
  /\ i \in 1..Len(toggles)
  /\ toggles[i].pc = "audit"
  /\ activityLog' = Append(activityLog, toggleAuditEntry(toggles[i]))
  /\ savingId' = "null"
  /\ toggles' = removeAt(toggles, i)
  /\ repeatOf' = "none"
  /\ UNCHANGED << auth, dash, ann, doc, store, rows, loading, error, csvProcessing, csvMessage, csv, now,
                  ops >>

\* logActivity rejects: the catch block reverts the row.
ToggleAuditFail(i) ==
  /\ i \in 1..Len(toggles)
  /\ toggles[i].pc = "audit"
  /\ error' = "Update failed"
  /\ rows' = revertRow(rows, toggles[i].r)
  /\ savingId' = "null"
  /\ toggles' = removeAt(toggles, i)
  /\ repeatOf' = "none"
  /\ UNCHANGED << auth, dash, ann, doc, store, activityLog, loading, csvProcessing, csvMessage, csv, now,
                  ops >>

(***************************************************************************)
(* Another client of the store verifies or unverifies a profile.           *)
(***************************************************************************)
ExternalVerify(k) ==
  /\ ops < MaxOps
  /\ k \in 1..Len(store)
  /\ store[k].is_verified # "true"
  /\ store' = [store EXCEPT ![k].is_verified = "true", ![k].verified_at = now,
                            ![k].verified_by = "admin2"]
  /\ now' = now + 1
  /\ ops' = ops + 1
  /\ repeatOf' = "none"
  /\ UNCHANGED << auth, dash, ann, doc, activityLog, rows, loading, error, csvProcessing, csvMessage,
                  savingId, csv, toggles >>

ExternalUnverify(k) ==
  /\ ops < MaxOps
  /\ k \in 1..Len(store)
  /\ store[k].is_verified = "true"
  /\ store' = [store EXCEPT ![k].is_verified = "false", ![k].verified_at = NullTime,
                            ![k].verified_by = "null"]
  /\ ops' = ops + 1
  /\ repeatOf' = "none"
  /\ UNCHANGED << auth, dash, ann, doc, activityLog, rows, loading, error, csvProcessing, csvMessage,
                  savingId, csv, toggles, now >>

(***************************************************************************)
(* Spec: the CSV upload flow, with reloads and the writes of other clients *)
(* of the store.  SpecToggle: the single-row toggle flow, with reloads and *)
(* the writes of other clients.  Both start from Init.                     *)
(***************************************************************************)
Next ==
  \/ LoadClick
  \/ LoadDone
  \/ LoadFail
  \/ \E f \in FileNames : CsvPick(f)
  \/ CsvRead
  \/ CsvReadFail
  \/ CsvGetUser
  \/ CsvGetUserFail
  \/ CsvUpdate
  \/ CsvUpdateFail
  \/ CsvAudit
  \/ CsvAuditFail
  \/ \E k \in 1..Len(store) : ExternalVerify(k)
  \/ \E k \in 1..Len(store) : ExternalUnverify(k)

Spec == Init /\ [][Next]_vars

NextToggle ==
  \/ LoadClick
  \/ LoadDone
  \/ LoadFail
  \/ \E k \in 1..Len(rows) : ToggleClick(k)
  \/ \E i \in 1..Len(toggles) : \E a \in {"admin1", "null"} : ToggleUpdate(i, a)
  \/ \E i \in 1..Len(toggles) : ToggleUpdateFail(i)
  \/ \E i \in 1..Len(toggles) : ToggleAudit(i)
  \/ \E i \in 1..Len(toggles) : ToggleAuditFail(i)
  \/ \E k \in 1..Len(store) : ExternalVerify(k)
  \/ \E k \in 1..Len(store) : ExternalUnverify(k)

\* The steps that end an await of load or of handleCsvUpload: every promise
\* awaited settles, and the continuation then runs.
AwaitSettles ==
  \/ LoadFail
  \/ LoadDone
  \/ CsvReadFail
  \/ CsvRead
  \/ CsvGetUserFail
  \/ CsvGetUser
  \/ CsvUpdateFail
  \/ CsvUpdate
  \/ CsvAuditFail
  \/ CsvAudit

SpecFair == Init /\ [][Next]_vars /\ WF_vars(AwaitSettles)

SpecToggle == Init /\ [][NextToggle]_vars

\* The single-row toggle flow with reloads, no other client writing.
NextToggleAlone ==
  \/ LoadClick
  \/ LoadDone
  \/ LoadFail
  \/ \E k \in 1..Len(rows) : ToggleClick(k)
  \/ \E i \in 1..Len(toggles) : \E a \in {"admin1", "null"} : ToggleUpdate(i, a)
  \/ \E i \in 1..Len(toggles) : ToggleUpdateFail(i)
  \/ \E i \in 1..Len(toggles) : ToggleAudit(i)
  \/ \E i \in 1..Len(toggles) : ToggleAuditFail(i)

SpecToggleAlone == Init /\ [][NextToggleAlone]_vars

(***************************************************************************)
(* SpecParse: the CSV upload flow over the documents of Docs, one document *)
(* in each behaviour, uploaded once (ops starts one below MaxOps) to a     *)
(* page that shows two complete profiles.                                  *)
(***************************************************************************)
ParseProfiles ==
  << Person("p1", <<"J","a","n","e">>, <<"D","o","e">>, 2020),
     Person("p2", <<"A","n","n">>, <<"L","e","e">>, 2021) >>

InitParse ==
  /\ doc \in Docs
  /\ auth = NoAuth
  /\ dash = NoDash
  /\ ann = NoAnn
  /\ store = [k \in 1..Len(ParseProfiles) |-> InitialRow(ParseProfiles[k], "false")]
  /\ activityLog = <<>>
  /\ rows = <<>>
  /\ loading = TRUE
  /\ error = "null"
  /\ csvProcessing = FALSE
  /\ csvMessage = NoMessage
  /\ savingId = "null"
  /\ csv = IdleCsv
  /\ toggles = <<>>
  /\ now = 2
  /\ ops = MaxOps - 1
  /\ repeatOf = "none"

\* The document is picked in the upload control.
CsvPickDoc ==
  /\ doc # NoDoc
  /\ CsvPick("upload.csv")

\* file.text() resolves to the text of the document.
CsvReadDoc ==
  /\ csv.pc = "read"
  /\ doc # NoDoc
  /\ csvAfterParse(parseVerificationCsv(Render(doc)))
  /\ UNCHANGED << auth, dash, ann, doc, store, activityLog, rows, loading, savingId, toggles, now, ops >>

NextParse ==
  \/ LoadDone
  \/ LoadFail
  \/ CsvPickDoc
  \/ CsvReadDoc
  \/ CsvReadFail
  \/ CsvGetUser
  \/ CsvGetUserFail
  \/ CsvUpdate
  \/ CsvUpdateFail
  \/ CsvAudit
  \/ CsvAuditFail

SpecParse == InitParse /\ [][NextParse]_vars

(***************************************************************************)
(* SpecNorm: the CSV upload flow over one profile and a one-row document   *)
(* whose names are written in varying letter case and whitespace layout:   *)
(* the profile varies against the document of the registrar, or the        *)
(* document against the profile as registered.                             *)
(***************************************************************************)
MaxPad == 1

upperChar(c) ==
  IF \E u \in DOMAIN LowerOf : LowerOf[u] = c
    THEN CHOOSE u \in DOMAIN LowerOf : LowerOf[u] = c
    ELSE c

CaseMasks == { {}, {1}, {2, 4}, 1..4 }

Casings(w) ==
  { [k \in 1..Len(w) |-> IF k \in mask THEN upperChar(w[k]) ELSE w[k]] :
      mask \in CaseMasks }

\* The runs of spaces and tabs of a length from lo to hi.
WsRuns(lo, hi) == UNION { [1..n -> {" ", "\t"}] : n \in lo..hi }

FirstVariants ==
  { l \o w \o t : l \in WsRuns(0, MaxPad), w \in Casings(<<"j","a","n","e">>),
                  t \in WsRuns(0, MaxPad) }

LastVariants ==
  { l \o w : l \in WsRuns(0, MaxPad), w \in Casings(<<"d","o","e">>) }

NameVariants ==
  { l \o f \o m \o w \o t :
      l \in WsRuns(0, MaxPad), f \in Casings(<<"j","a","n","e">>),
      m \in WsRuns(1, MaxPad + 1), w \in Casings(<<"d","o","e">>),
      t \in WsRuns(0, MaxPad) }

NameDocument(name) ==
  Document(Header(<< <<"N","a","m","e">>, <<"Y","e","a","r">> >>, 0, -1, -1, 1), ",",
           << DataRow(name, <<>>, <<>>, <<"2","0","2","0">>, 0) >>)

InitNorm ==
  /\ \/ /\ \E f \in FirstVariants : \E l \in LastVariants :
             store = << InitialRow(Person("p1", f, l, 2020), "false") >>
        /\ doc = NameDocument(<<"j","a","n","e"," "," "," ","d","o","e">>)
     \/ /\ \E fl \in {"false", "true"} :
             store = << InitialRow(Person("p1", <<"J","a","n","e">>, <<"D","o","e">>, 2020),
                                   fl) >>
        /\ \E n \in NameVariants : doc = NameDocument(n)
  /\ activityLog = <<>>
  /\ rows = <<>>
  /\ loading = TRUE
  /\ error = "null"
  /\ csvProcessing = FALSE
  /\ csvMessage = NoMessage
  /\ savingId = "null"
  /\ csv = IdleCsv
  /\ toggles = <<>>
  /\ now = 2
  /\ ops = MaxOps - 1
  /\ repeatOf = "none"
  /\ auth = NoAuth
  /\ dash = NoDash
  /\ ann = NoAnn

SpecNorm == InitNorm /\ [][NextParse]_vars

(***************************************************************************)
(* Vocabulary of the properties, stated without the index or the keys.     *)
(***************************************************************************)
\* Non-empty first name, non-empty last name and a graduation year.
Complete(r) ==
  /\ r.first_name # NullStr /\ r.first_name # <<>>
  /\ r.last_name # NullStr /\ r.last_name # <<>>
  /\ r.graduation_year # NullYear

profileName(r) ==
  normalizeNameParts(strOf(r.first_name) \o <<" ">> \o strOf(r.last_name), NullStr)

\* The row at position k is the one its name and year resolve to: it is
\* indexable and no later indexable row has the same normalized name and year.
Indexable(r) == Complete(r) /\ r.graduation_year # 0

IsIndexEntry(rs, k) ==
  /\ Indexable(rs[k])
  /\ \A j \in (k + 1)..Len(rs) :
       ~(/\ Indexable(rs[j])
         /\ profileName(rs[j]) = profileName(rs[k])
         /\ rs[j].graduation_year = rs[k].graduation_year)

RecMatches(rec, r) ==
  /\ normalizeNameParts(rec.fullName, NullStr) = profileName(r)
  /\ rec.year = r.graduation_year

ExpectedToVerifyIds(rs, parsed) ==
  { rs[k].id : k \in { k \in 1..Len(rs) :
      /\ rs[k].is_verified # "true"
      /\ IsIndexEntry(rs, k)
      /\ \E i \in 1..Len(parsed) : RecMatches(parsed[i], rs[k]) } }

ExpectedAlreadyVerified(rs, parsed) ==
  Cardinality({ i \in 1..Len(parsed) :
    \E k \in 1..Len(rs) :
      /\ IsIndexEntry(rs, k)
      /\ rs[k].is_verified = "true"
      /\ RecMatches(parsed[i], rs[k]) })

idSet(ids) == { ids[k] : k \in 1..Len(ids) }

noRepeat(ids) == \A i, j \in 1..Len(ids) : ids[i] = ids[j] => i = j

\* The step is the read step of an upload whose file parsed to some records.
ReadStepWithRecords == CsvRead /\ Len(ParsedOf[csv.file]) > 0

(***************************************************************************)
(* C1.  Matching, verifying every row of toVerify, and matching again.     *)
(***************************************************************************)
FirstMatch == matchRecords(csv.rows, ParsedOf[csv.file])

RowsAfterVerify ==
  applyPayload(csv.rows, idsOf(FirstMatch.toVerify),
               [is_verified |-> "true", verified_at |-> now, verified_by |-> "admin1"])

SecondMatch == matchRecords(RowsAfterVerify, ParsedOf[csv.file])

\* C1 as stated: after the rows of the first toVerify are set verified, a
\* second match over the same records has an empty toVerify and an
\* alreadyVerified equal to the length of the first toVerify.
C1_IdempotenceAsStated ==
  csv.pc = "read" =>
    /\ SecondMatch.toVerify = <<>>
    /\ SecondMatch.alreadyVerified = Len(FirstMatch.toVerify)

\* C1 amended: the second match has an empty toVerify and an alreadyVerified
\* equal to the first alreadyVerified plus the length of the first toVerify.
C1_Idempotence ==
  csv.pc = "read" =>
    /\ SecondMatch.toVerify = <<>>
    /\ SecondMatch.alreadyVerified =
         FirstMatch.alreadyVerified + Len(FirstMatch.toVerify)

C1_Witness ==
  /\ csv.pc = "read"
  /\ Len(FirstMatch.toVerify) > 0
  /\ FirstMatch.alreadyVerified > 0

(***************************************************************************)
(* C2.  toVerify and the id list of the bulk update hold no id twice.      *)
(***************************************************************************)
\* C2: no profile id occurs more than once in toVerify, nor in the id list
\* sent to the bulk update.
C2_NoDuplicateIds == noRepeat(idsOf(csv.toVerify)) /\ noRepeat(csv.ids)

(***************************************************************************)
(* C3.  The same file uploaded again.                                      *)
(***************************************************************************)
\* C3: an upload of the file whose previous upload's bulk update reached the
\* store, with nothing happening in between, sends no bulk update and no
\* audit entry.
C3_SecondUploadChangesNothing ==
  (csv.pc # "idle" /\ csv.repeat /\ repeatOf = csv.file) =>
    (csv.calls.update = 0 /\ csv.calls.audit = 0)

(***************************************************************************)
(* C4.  Nothing to verify.                                                 *)
(***************************************************************************)
\* C4: when the matching of a parsed file leaves toVerify empty, the upload
\* ends in that step having sent no request, the store, the activity log and
\* the rows in memory are unchanged, and the message carries alreadyVerified.
C4_EmptyToVerifyNoStoreContact ==
  [][ (ReadStepWithRecords /\ Len(FirstMatch.toVerify) = 0) =>
        /\ csv'.pc = "idle"
        /\ csv.calls = NoCalls
        /\ store' = store
        /\ activityLog' = activityLog
        /\ rows' = rows
        /\ csvMessage'.kind = "No matching pending alumni"
        /\ csvMessage'.already = FirstMatch.alreadyVerified ]_vars

C4_Witness ==
  /\ csvMessage.kind = "No matching pending alumni"
  /\ csvMessage.already > 0
  /\ csv.pc = "idle"

(***************************************************************************)
(* C5.  The successful upload.                                             *)
(***************************************************************************)
\* C5: an upload whose calls all succeed has sent one user lookup, one bulk
\* update and one audit entry; the update sets exactly the rows of toVerify
\* to the payload in the store, the same rows take the same payload in
\* memory, and the audit entry counts the ids updated and alreadyVerified.
C5_OneUpdateOneAudit ==
  /\ [][ CsvUpdate =>
           /\ idSet(csv.ids) = idSet(idsOf(csv.toVerify))
           /\ csv.payload.is_verified = "true"
           /\ store' = applyPayload(store, csv.ids, csv.payload) ]_vars
  /\ [][ CsvAudit =>
           /\ csv.calls = [getUser |-> 1, update |-> 1, audit |-> 1]
           /\ rows' = applyPayload(rows, idsOf(csv.toVerify), csv.payload)
           /\ Len(activityLog') = Len(activityLog) + 1
           /\ activityLog'[Len(activityLog')].verified_count = Cardinality(idSet(csv.ids))
           /\ activityLog'[Len(activityLog')].already_verified = csv.alreadyVerified
      ]_vars

(***************************************************************************)
(* C6.  No optimistic change of the rows in memory.                        *)
(***************************************************************************)
\* C6: no step of an upload before the bulk update is confirmed changes the
\* rows in memory, and a failed user lookup or bulk update leaves them
\* unchanged, sets an error and records no audit entry.
C6_NoOptimisticMutation ==
  /\ [][ (csv' # csv /\ csv.pc \in {"idle", "read", "getUser", "update"}) =>
           rows' = rows ]_vars
  /\ [][ (csv' # csv /\ csv.pc \in {"getUser", "update"} /\ csv'.pc = "idle") =>
           /\ rows' = rows
           /\ error' \in {"user lookup error", "bulk update error"}
           /\ activityLog' = activityLog
           /\ csv.calls.audit = 0 ]_vars

C6_Witness ==
  /\ error = "bulk update error"
  /\ csv.pc = "idle"
  /\ \E k \in 1..Len(rows) : Indexable(rows[k]) /\ rows[k].is_verified # "true"

(***************************************************************************)
(* C7.  The profile set an upload matches against.                         *)
(***************************************************************************)
\* C7: the rows an upload matches against classify every record as the
\* store's current rows do.
C7_MatchesCurrentStore ==
  [][ ReadStepWithRecords =>
        /\ idSet(idsOf(FirstMatch.toVerify))
             = idSet(idsOf(matchRecords(store, ParsedOf[csv.file]).toVerify))
        /\ FirstMatch.alreadyVerified
             = matchRecords(store, ParsedOf[csv.file]).alreadyVerified ]_vars

(***************************************************************************)
(* C8.  Incomplete profiles.                                               *)
(***************************************************************************)
completeRows(rs) == SelectSeq(rs, Complete)

\* C8: every row of the index is complete; the rows with a missing first
\* name, last name or year make no difference to the result of the match,
\* are not in toVerify, and are changed by no step of an upload, in the
\* store or in memory.
C8_IncompleteProfilesUntouched ==
  [][ csv' # csv =>
        /\ csv.pc = "read" =>
             /\ \A key \in DOMAIN buildIndex(csv.rows) :
                  Complete(buildIndex(csv.rows)[key])
             /\ FirstMatch = matchRecords(completeRows(csv.rows), ParsedOf[csv.file])
        /\ \A i \in 1..Len(csv'.toVerify) : Complete(csv'.toVerify[i])
        /\ \A k \in 1..Len(store) : ~Complete(store[k]) => store'[k] = store[k]
        /\ \A k \in 1..Len(rows) : ~Complete(rows[k]) => rows'[k] = rows[k] ]_vars

C8_Witness ==
  /\ csv.pc = "audit"
  /\ \E k \in 1..Len(csv.rows) : ~Complete(csv.rows[k])
  /\ \E i \in 1..Len(ParsedOf[csv.file]) :
       normalizeNameParts(ParsedOf[csv.file][i].fullName, NullStr)
         \in { profileName(csv.rows[k]) : k \in { k \in 1..Len(csv.rows) :
                                                  ~Complete(csv.rows[k]) } }

(***************************************************************************)
(* C9.  Exact normalized match.                                            *)
(***************************************************************************)
\* C9: the ids of toVerify are exactly the ids of the rows that are not
\* verified, are the index entry of their name and year, and have a CSV
\* record with an equal normalized name and an equal year.
C9_ExactNormalizedMatch ==
  [][ ReadStepWithRecords =>
        idSet(idsOf(csv'.toVerify))
          = ExpectedToVerifyIds(csv.rows, ParsedOf[csv.file]) ]_vars

C9_Witness ==
  /\ csv.pc = "getUser"
  /\ \E k \in 1..Len(csv.rows) :
       /\ Indexable(csv.rows[k])
       /\ csv.rows[k].is_verified # "true"
       /\ csv.rows[k].id \notin idSet(idsOf(csv.toVerify))
       /\ \E i \in 1..Len(ParsedOf[csv.file]) :
            /\ normalizeNameParts(ParsedOf[csv.file][i].fullName, NullStr)
                 = profileName(csv.rows[k])
            /\ ParsedOf[csv.file][i].year # csv.rows[k].graduation_year

(***************************************************************************)
(* C10.  Records that resolve to a verified profile.                       *)
(***************************************************************************)
\* C10: alreadyVerified is the number of CSV records, with multiplicity,
\* that resolve to a verified row of the index, and no verified row is in
\* toVerify.
C10_AlreadyVerifiedCount ==
  [][ ReadStepWithRecords =>
        /\ \A i \in 1..Len(csv'.toVerify) : csv'.toVerify[i].is_verified # "true"
        /\ IF csv'.pc = "getUser"
             THEN csv'.alreadyVerified
                    = ExpectedAlreadyVerified(csv.rows, ParsedOf[csv.file])
             ELSE csvMessage'.already
                    = ExpectedAlreadyVerified(csv.rows, ParsedOf[csv.file]) ]_vars

C10_Witness ==
  /\ csv.pc = "getUser"
  /\ csv.alreadyVerified = 2
  /\ Len(csv.toVerify) > 0

(***************************************************************************)
(* C11.  What an upload changes.                                           *)
(***************************************************************************)
\* The row after is the row before, verified with the payload of the upload.
VerifiedByUpload(before, after) ==
  /\ csv.payload.is_verified = "true"
  /\ csv.payload.verified_at # NullTime
  /\ after = [before EXCEPT !.is_verified = "true",
                            !.verified_at = csv.payload.verified_at,
                            !.verified_by = csv.payload.verified_by]

OnlyToVerifyChanged(before, after) ==
  /\ Len(after) = Len(before)
  /\ \A k \in 1..Len(before) :
       /\ after[k] # before[k] =>
            /\ before[k].id \in idSet(idsOf(csv.toVerify))
            /\ VerifiedByUpload(before[k], after[k])
       /\ before[k].is_verified = "true" => after[k].is_verified = "true"

\* C11: a step of an upload changes, in the store and in memory, only rows
\* whose id is in toVerify, only by setting them verified with the timestamp
\* and the verifier of the upload, and sets no row to unverified.
C11_OnlyToVerifyChanged ==
  [][ csv' # csv =>
        /\ OnlyToVerifyChanged(store, store')
        /\ OnlyToVerifyChanged(rows, rows') ]_vars

C11_Witness ==
  /\ csv.pc = "audit"
  /\ csv.file = "batch.csv"
  /\ \E k \in 1..Len(store) :
       /\ store[k].id \notin idSet(csv.ids)
       /\ store[k].is_verified # "true"
  /\ \E k \in 1..Len(store) :
       /\ store[k].id \in idSet(csv.ids)
       /\ store[k].verified_at = csv.payload.verified_at

(***************************************************************************)
(* C12.  Two profiles with the same name and year.                         *)
(***************************************************************************)
\* Row k has a later indexable row with the same normalized name and year.
Shadowed(rs, k) == Indexable(rs[k]) /\ ~IsIndexEntry(rs, k)

\* The last indexable row with the normalized name and year of row k.
lastLike(rs, k) ==
  CHOOSE j \in k..Len(rs) :
    /\ IsIndexEntry(rs, j)
    /\ profileName(rs[j]) = profileName(rs[k])
    /\ rs[j].graduation_year = rs[k].graduation_year

without(rs, k) == SubSeq(rs, 1, k - 1) \o SubSeq(rs, k + 1, Len(rs))

\* C12: when a row has a later row with the same key, the index is built,
\* holds the later row under that key, and the match is the one of the rows
\* without the earlier row, which is not in toVerify.
C12_LastProfileWins ==
  [][ ReadStepWithRecords =>
        \A k \in 1..Len(csv.rows) : Shadowed(csv.rows, k) =>
          /\ rowKey(csv.rows[k]) \in DOMAIN buildIndex(csv.rows)
          /\ buildIndex(csv.rows)[rowKey(csv.rows[k])] = csv.rows[lastLike(csv.rows, k)]
          /\ FirstMatch = matchRecords(without(csv.rows, k), ParsedOf[csv.file])
          /\ csv.rows[k].id \notin idSet(idsOf(csv'.toVerify)) ]_vars

C12_Witness ==
  /\ csv.pc = "getUser"
  /\ \E k \in 1..Len(csv.rows) :
       /\ Shadowed(csv.rows, k)
       /\ csv.rows[k].is_verified # "true"
       /\ idSet(idsOf(csv.toVerify)) = {csv.rows[lastLike(csv.rows, k)].id}

(***************************************************************************)
(* C13.  Letter case and whitespace layout.                                *)
(***************************************************************************)
JaneDoeKey == <<"j","a","n","e"," ","d","o","e","|","2","0","2","0">>

normalizedTwice(name) ==
  normalizeNameParts(normalizeNameParts(name, NullStr), NullStr)

\* The record matches the row: the row is to be verified, or counted when it
\* is verified already.
MatchedAs(m, r) ==
  IF r.is_verified = "true"
    THEN m.toVerify = <<>> /\ m.alreadyVerified = 1
    ELSE idsOf(m.toVerify) = <<r.id>> /\ m.alreadyVerified = 0

\* C13: whatever the letter case, the leading and trailing whitespace and
\* the length of the inner whitespace runs of the profile's names and of the
\* name in the file, the record and the row have the same key, the one of
\* 'jane doe' and 2020, the record matches the row, and normalizing a
\* normalized name returns it unchanged.
C13_CaseAndWhitespaceInsensitive ==
  [][ (CsvReadDoc /\ Len(csv.rows) = 1) =>
        /\ Len(parseVerificationCsv(Render(doc))) = 1
        /\ recordKey(parseVerificationCsv(Render(doc))[1]) = rowKey(csv.rows[1])
        /\ rowKey(csv.rows[1]) = JaneDoeKey
        /\ MatchedAs(matchRecords(csv.rows, parseVerificationCsv(Render(doc))),
                     csv.rows[1])
        /\ csv'.toVerify
             = matchRecords(csv.rows, parseVerificationCsv(Render(doc))).toVerify
        /\ normalizedTwice(doc.rows[1].full)
             = normalizeNameParts(doc.rows[1].full, NullStr)
        /\ normalizedTwice(strOf(csv.rows[1].first_name) \o <<" ">>
                           \o strOf(csv.rows[1].last_name))
             = profileName(csv.rows[1]) ]_vars

C13_Witness ==
  /\ csv.pc = "getUser"
  /\ Len(csv.toVerify) = 1
  /\ includes(doc.rows[1].full, "\t")
  /\ doc.rows[1].full[1] = " "
  /\ toLowerCase(doc.rows[1].full) # doc.rows[1].full

(***************************************************************************)
(* C14.  Documents without the required columns.                           *)
(***************************************************************************)
\* The header was written without a year column, or with neither a full
\* name column nor both a first name and a last name column.
Unusable(h) == h.year = -1 \/ (h.full = -1 /\ (h.first = -1 \/ h.last = -1))

\* C14: the upload of a document with an unusable header parses to no
\* record, whatever its data rows, sets the error of the missing columns and
\* ends in that step with no request sent and the store, the activity log
\* and the rows in memory unchanged.
C14_UnusableHeader ==
  [][ (CsvReadDoc /\ Unusable(doc.header)) =>
        /\ parseVerificationCsv(Render(doc)) = <<>>
        /\ error' = "CSV is empty or missing required columns"
        /\ csv.calls = NoCalls
        /\ csv' = IdleCsv
        /\ csvMessage' = csvMessage
        /\ store' = store
        /\ activityLog' = activityLog
        /\ rows' = rows ]_vars

C14_Witness ==
  /\ error = "CSV is empty or missing required columns"
  /\ csv.pc = "idle"
  /\ doc.header.year = -1
  /\ Len(doc.rows) = 2
  /\ doc.rows[1].year = <<"2","0","2","0">>
  /\ Len(rows) = 2

(***************************************************************************)
(* The documents as written, for the properties of the parser.             *)
(***************************************************************************)
blank(cell) == \A k \in 1..Len(cell) : cell[k] \in Whitespace

\* The row was written with a cell in column c (0-based).
hasCell(h, r, c) == c >= 0 /\ c < Len(h.labels) - r.cut

\* The row has no name: no full name, and no first and last name to join.
EmptyName(h, r) ==
  /\ ~hasCell(h, r, h.full) \/ blank(r.full)
  /\ \/ ~hasCell(h, r, h.first)
     \/ ~hasCell(h, r, h.last)
     \/ (blank(r.first) /\ blank(r.last))

Digits == {"0", "1", "2", "3", "4", "5", "6", "7", "8", "9"}

\* The year cell is not the decimal writing of an integer.
BadYear(h, r) ==
  \/ ~hasCell(h, r, h.year)
  \/ blank(r.year)
  \/ \E k \in 1..Len(r.year) : r.year[k] \notin Digits \cup Whitespace

withoutRow(d, i) == [d EXCEPT !.rows = without(d.rows, i)]

Parsed == parseVerificationCsv(Render(doc))

(***************************************************************************)
(* C15.  Rows with no name or no year.                                     *)
(***************************************************************************)
\* C15: every record parsed has a non-empty name and an integer year, and a
\* data row with an empty name or a year that is not an integer leaves the
\* result what it is without that row.
C15_BadRowsDropped ==
  [][ CsvReadDoc =>
        /\ \A j \in 1..Len(Parsed) :
             /\ Parsed[j].fullName # <<>>
             /\ ~blank(Parsed[j].fullName)
             /\ Parsed[j].year \in Int
        /\ \A i \in 1..Len(doc.rows) :
             (EmptyName(doc.header, doc.rows[i]) \/ BadYear(doc.header, doc.rows[i])) =>
               parseVerificationCsv(Render(withoutRow(doc, i))) = Parsed ]_vars

C15_Witness ==
  /\ csv.pc = "getUser"
  /\ Len(doc.rows) = 2
  /\ BadYear(doc.header, doc.rows[1])
  /\ ~EmptyName(doc.header, doc.rows[1])
  /\ idsOf(csv.toVerify) = <<"p1">>

(***************************************************************************)
(* C16.  The delimiter.                                                    *)
(***************************************************************************)
\* The header line as written.
headerLine(d) == joinCells(d.header.labels, d.delimiter)

has(line, c) == \E k \in 1..Len(line) : line[k] = c

ExpectedDelimiter(line) ==
  IF has(line, ";") /\ ~has(line, ",") THEN ";"
  ELSE IF has(line, "\t") /\ ~has(line, ",") THEN "\t"
  ELSE ","

NameBatch == << <<"N","a","m","e">>, <<"B","a","t","c","h">> >>

JaneDoe2020 == [fullName |-> <<"J","a","n","e"," ","D","o","e">>, year |-> 2020]

\* C16: the delimiter is ';' when the header line holds a ';' and no ',',
\* else tab when it holds a tab and no ',', else ',', whatever the data rows
\* hold; the header 'Name;Batch' is split on ';', its columns resolve to the
\* full name and the year, and its row 'Jane Doe;2020' is parsed.
C16_DelimiterFromHeader ==
  [][ CsvReadDoc =>
        /\ nonEmptyLines(Render(doc))[1] = headerLine(doc)
        /\ inferDelimiter(nonEmptyLines(Render(doc))[1])
             = ExpectedDelimiter(headerLine(doc))
        /\ (doc.header.labels = NameBatch /\ doc.delimiter = ";") =>
             /\ lowerAll(splitLine(headerLine(doc), inferDelimiter(headerLine(doc))))
                  = << <<"n","a","m","e">>, <<"b","a","t","c","h">> >>
             /\ \A i \in 1..Len(doc.rows) :
                  (doc.rows[i].full = JaneDoe2020.fullName /\ doc.rows[i].cut = 0) =>
                    \E j \in 1..Len(Parsed) : Parsed[j] = JaneDoe2020 ]_vars

C16_Witness ==
  /\ csv.pc = "getUser"
  /\ doc.header.labels = NameBatch
  /\ doc.delimiter = ";"
  /\ Len(doc.rows) = 2
  /\ has(doc.rows[1].full, ",")
  /\ idsOf(csv.toVerify) = <<"p1">>

(***************************************************************************)
(* The records expected of a document as written.                          *)
(***************************************************************************)
\* The document is read as written: the delimiter of its writer is the one
\* its header line calls for, and no label or cell holds it.
Clean(d) ==
  /\ ExpectedDelimiter(headerLine(d)) = d.delimiter
  /\ \A k \in 1..Len(d.header.labels) : ~has(d.header.labels[k], d.delimiter)
  /\ \A i \in 1..Len(d.rows) : \A k \in 1..Len(cellsOf(d.header, d.rows[i])) :
       ~has(cellsOf(d.header, d.rows[i])[k], d.delimiter)

\* Trimming the line of the row removes no cell: the delimiter is not
\* whitespace, or the first and the last cell written are not blank.
EdgeIntact(d, r) ==
  \/ d.delimiter \notin Whitespace
  \/ /\ Len(cellsOf(d.header, r)) > 0
     /\ ~blank(cellsOf(d.header, r)[1])
     /\ ~blank(cellsOf(d.header, r)[Len(cellsOf(d.header, r))])

\* The largest column written as year, full, first or last name (0-based).
maxColumn(h) == maxOf({h.year, h.full, h.first, h.last})

RECURSIVE decimalFrom(_, _, _)
decimalFrom(cell, k, acc) ==
  IF k > Len(cell) THEN acc
  ELSE decimalFrom(cell, k + 1,
         IF cell[k] \in Digits
           THEN 10 * acc + (CHOOSE n \in 0..9 : DigitChar[n + 1] = cell[k])
           ELSE acc)

\* The integer a year cell of digits writes.
DecimalValue(cell) == decimalFrom(cell, 1, 0)

firstAndLast(r) == trim(trim(r.first) \o <<" ">> \o trim(r.last))

\* The name of a row: the full name cell when the header has a full name
\* column, the first and last name joined only when it has none.
NameAsStated(h, r) ==
  IF h.full # -1 THEN trim(r.full)
  ELSE IF h.first # -1 /\ h.last # -1 THEN firstAndLast(r)
  ELSE <<>>

\* The name of a row: the full name cell when the header has a full name
\* column and the cell is not blank, else the first and last name joined.
NameByRule(h, r) ==
  IF h.full # -1 /\ ~blank(r.full) THEN trim(r.full)
  ELSE IF h.first # -1 /\ h.last # -1 THEN firstAndLast(r)
  ELSE <<>>

\* The row is written up to the largest column used, with a name and a year.
GoodRow(d, r) ==
  /\ hasCell(d.header, r, maxColumn(d.header))
  /\ NameByRule(d.header, r) # <<>>
  /\ ~BadYear(d.header, r)

(***************************************************************************)
(* C17.  Where the name of a record comes from.                            *)
(***************************************************************************)
\* C17 as stated: when the header has a full name column the name of every
\* record is a full name cell; the first and last name are joined only when
\* the header has no full name column.
C17_NameSourceAsStated ==
  [][ (CsvReadDoc /\ Clean(doc) /\ ~Unusable(doc.header)) =>
        \A j \in 1..Len(Parsed) : \E i \in 1..Len(doc.rows) :
          Parsed[j].fullName = NameAsStated(doc.header, doc.rows[i]) ]_vars

\* C17 amended: the name of every record is the full name cell of a row when
\* the header has a full name column and the cell is not blank, else the
\* first and last name of the row joined by one space and trimmed; and every
\* row written in full with such a name and a year has its record.
C17_NameSource ==
  [][ (CsvReadDoc /\ Clean(doc) /\ ~Unusable(doc.header)) =>
        /\ \A j \in 1..Len(Parsed) : \E i \in 1..Len(doc.rows) :
             /\ Parsed[j].fullName = NameByRule(doc.header, doc.rows[i])
             /\ Parsed[j].year = DecimalValue(doc.rows[i].year)
        /\ \A i \in 1..Len(doc.rows) :
             (GoodRow(doc, doc.rows[i]) /\ EdgeIntact(doc, doc.rows[i])) =>
               \E j \in 1..Len(Parsed) :
                 Parsed[j] = [fullName |-> NameByRule(doc.header, doc.rows[i]),
                              year |-> DecimalValue(doc.rows[i].year)] ]_vars

C17_Witness ==
  /\ csv.pc = "getUser"
  /\ Clean(doc)
  /\ doc.header.full # -1 /\ doc.header.first # -1 /\ doc.header.last # -1
  /\ Len(doc.rows) = 2
  /\ blank(doc.rows[1].full) /\ ~blank(doc.rows[1].first)
  /\ ~blank(doc.rows[2].full) /\ firstAndLast(doc.rows[2]) # trim(doc.rows[2].full)
  /\ idsOf(csv.toVerify) = <<"p2", "p1">>

(***************************************************************************)
(* C18.  The records come in the order of the rows.                        *)
(***************************************************************************)
\* The sets of rows a reading may keep: never a row without a name or a
\* year, always a row written in full that trimming leaves whole.
KeptChoices(d) ==
  { K \in SUBSET (1..Len(d.rows)) :
      /\ \A i \in K : GoodRow(d, d.rows[i])
      /\ \A i \in 1..Len(d.rows) :
           (GoodRow(d, d.rows[i]) /\ EdgeIntact(d, d.rows[i])) => i \in K }

RECURSIVE recordsOf(_, _, _)
recordsOf(d, K, i) ==
  IF i > Len(d.rows) THEN <<>>
  ELSE (IF i \in K
          THEN << [fullName |-> NameByRule(d.header, d.rows[i]),
                   year |-> DecimalValue(d.rows[i].year)] >>
          ELSE <<>>) \o recordsOf(d, K, i + 1)

\* C18: the records are, in the order of the rows, one record for each row
\* kept: no record is moved, repeated or made up.
C18_OrderPreserved ==
  [][ (CsvReadDoc /\ Clean(doc) /\ ~Unusable(doc.header)) =>
        \E K \in KeptChoices(doc) : Parsed = recordsOf(doc, K, 1) ]_vars

C18_Witness ==
  /\ csv.pc = "getUser"
  /\ Clean(doc) /\ ~Unusable(doc.header)
  /\ Len(Parsed) = 2
  /\ Parsed[1].year > Parsed[2].year
  /\ Parsed[1].fullName # Parsed[2].fullName

(***************************************************************************)
(* C19.  Rows skipped for their length.                                    *)
(***************************************************************************)
expectedRecord(d, r) ==
  [fullName |-> NameByRule(d.header, r), year |-> DecimalValue(r.year)]

\* A row written short of the largest column used has no record.
ShortRowsSkipped ==
  [][ (CsvReadDoc /\ Clean(doc) /\ ~Unusable(doc.header)) =>
        \A i \in 1..Len(doc.rows) :
          ~hasCell(doc.header, doc.rows[i], maxColumn(doc.header)) =>
            \A j \in 1..Len(Parsed) : Parsed[j] # expectedRecord(doc, doc.rows[i]) ]_vars

\* C19: a row written short of the largest column used (year, full, first or
\* last name) has no record, and a row written up to that column, with a name
\* and a year, has its record: it is never skipped for its length.
C19_SkippedForLengthOnly ==
  [][ (CsvReadDoc /\ Clean(doc) /\ ~Unusable(doc.header)) =>
        \A i \in 1..Len(doc.rows) :
          /\ ~hasCell(doc.header, doc.rows[i], maxColumn(doc.header)) =>
               \A j \in 1..Len(Parsed) : Parsed[j] # expectedRecord(doc, doc.rows[i])
          /\ GoodRow(doc, doc.rows[i]) =>
               \E j \in 1..Len(Parsed) : Parsed[j] = expectedRecord(doc, doc.rows[i]) ]_vars

(***************************************************************************)
(* C21.  The single-row toggle changes the row first and reverts it when   *)
(* the update fails.                                                       *)
(***************************************************************************)
flip(v) == IF v = "true" THEN "false" ELSE "true"

othersUnchanged(id) ==
  /\ Len(rows') = Len(rows)
  /\ \A j \in 1..Len(rows) : rows[j].id # id => rows'[j] = rows[j]

\* C21: the click flips the verified flag of the row in memory while the
\* store is untouched and the update is still to be sent; when the update
\* fails the row of that id is the row as it was before the toggle, an error
\* is set, and the other rows in memory are unchanged.
C21_OptimisticThenRevert ==
  [][ /\ \A k \in 1..Len(rows) : ToggleClick(k) =>
           /\ rows'[k].is_verified = flip(rows[k].is_verified)
           /\ othersUnchanged(rows[k].id)
           /\ store' = store
           /\ toggles'[Len(toggles')] = [r |-> rows[k], next |-> rows'[k].is_verified,
                                         pc |-> "update"]
      /\ \A i \in 1..Len(toggles) : ToggleUpdateFail(i) =>
           /\ \A j \in 1..Len(rows) :
                rows[j].id = toggles[i].r.id => rows'[j] = toggles[i].r
           /\ othersUnchanged(toggles[i].r.id)
           /\ error' # "null"
           /\ store' = store ]_vars

C21_Witness ==
  /\ error = "Update failed"
  /\ toggles = <<>>
  /\ savingId = "null"
  /\ ops = 1
  /\ now = 4
  /\ rows = store
  /\ \A k \in 1..Len(store) : store[k].is_verified = "false"

(***************************************************************************)
(* C23.  The rows in memory after an upload whose bulk update succeeded.   *)
(***************************************************************************)
\* C23: when an upload whose bulk update succeeded in the store finishes,
\* with the audit call resolved or rejected, every id of toVerify is
\* verified in the rows in memory.
C23_MemoryAgreesAfterUpload ==
  [][ (csv.pc = "audit" /\ csv'.pc = "idle") =>
        \A n \in 1..Len(csv.ids) : \A j \in 1..Len(rows') :
          rows'[j].id = csv.ids[n] => rows'[j].is_verified = "true" ]_vars

\* The same, for the uploads whose audit call resolved.
AgreesWhenAuditResolves ==
  [][ CsvAudit =>
        \A n \in 1..Len(csv.ids) : \A j \in 1..Len(rows') :
          rows'[j].id = csv.ids[n] => rows'[j].is_verified = "true" ]_vars

(***************************************************************************)
(* C24.  The row in memory and the row of the store after a toggle.        *)
(***************************************************************************)
\* The verified flag in memory of the row of that id is the one of the store.
flagsAgree(id) ==
  \A j \in 1..Len(rows') : \A k \in 1..Len(store') :
    (rows'[j].id = id /\ store'[k].id = id) =>
      rows'[j].is_verified = store'[k].is_verified

\* C24: when a toggleVerify call finishes, by a failed update, a resolved
\* audit call or a rejected audit call, and no other client writes, the
\* verified flag in memory of the toggled row equals the one of the store.
C24_ToggleAgreesWithStore ==
  [][ \A i \in 1..Len(toggles) :
        (ToggleUpdateFail(i) \/ ToggleAudit(i) \/ ToggleAuditFail(i)) =>
          flagsAgree(toggles[i].r.id) ]_vars

\* The same, for the calls whose audit call does not reject.
AgreesWhenToggleAuditResolves ==
  [][ \A i \in 1..Len(toggles) :
        (ToggleUpdateFail(i) \/ ToggleAudit(i)) => flagsAgree(toggles[i].r.id) ]_vars

\* The same, for the calls that run from click to end with no other step
\* in between.
AgreesWhenToggleRunsAlone ==
  [][ \A i \in 1..Len(toggles) :
        ((ToggleUpdateFail(i) \/ ToggleAudit(i)) /\ Len(toggles) = 1 /\ ~loading /\ ops = 1)
          => flagsAgree(toggles[i].r.id) ]_vars

(***************************************************************************)
(* C25.  Toggles of one row in flight.                                     *)
(***************************************************************************)
\* C25: no two toggleVerify calls whose update is still to be answered are
\* for the same profile id, whatever rows are clicked.
C25_NoOverlappingToggles ==
  \A i, j \in 1..Len(toggles) :
    (i # j /\ toggles[i].pc = "update" /\ toggles[j].pc = "update") =>
      toggles[i].r.id # toggles[j].r.id

(***************************************************************************)
(* C26.  csvProcessing.                                                    *)
(***************************************************************************)
\* C26: csvProcessing is true exactly while an upload is being handled; a
\* file is picked only when no upload is in progress, and the pick sets the
\* flag; every step that ends the handler (unusable file, nothing to verify,
\* success, error thrown) resets it; and whenever it is true the upload
\* control is enabled again later.
C26_ProcessingFlag ==
  /\ [](csvProcessing <=> csv.pc # "idle")
  /\ [][ /\ \A f \in FileNames : CsvPick(f) => (csv.pc = "idle" /\ csvProcessing')
         /\ (csv.pc # "idle" /\ csv'.pc = "idle") => ~csvProcessing' ]_vars
  /\ (csvProcessing ~> (~csvProcessing /\ ~loading))

C26_Witness ==
  /\ ~csvProcessing
  /\ csv.pc = "idle"
  /\ error = "CSV is empty or missing required columns"
  /\ ops = MaxOps

(***************************************************************************)
(* Login (handleLogin), the route guard RequireAuth of App, and the logout *)
(* of Home.  The token store ('./auth') is taken as: saveToken keeps the   *)
(* token, clearToken drops it, isAuthenticated says whether one is kept.   *)
(***************************************************************************)
MaxLogins == 2

Users == {"alice", "bob", "carl"}

\* The role column of the profile row of each user; carl has no row.
roleOf == [u \in {"alice", "bob"} |-> IF u = "alice" THEN "admin" ELSE "alumni"]

\* What the select of the role resolves to: an error (also when there is no
\* row, by .single()), or the row.
ProfileOutcomes(u) ==
  { [profileError |-> TRUE, profile |-> "null"] } \cup
  (IF u \in DOMAIN roleOf
     THEN { [profileError |-> FALSE, profile |-> roleOf[u]] }
     ELSE {})

\* The test of the role that rejects on a lookup error only.
profileRejectedOnErrorOnly(o) == o.profileError

\* profileError || !profile || profile.role !== 'admin'
profileRejected(o) == o.profileError \/ o.profile = "null" \/ o.profile # "admin"

saveToken(a, accessToken, rememberMe) ==
  [a EXCEPT !.token = accessToken, !.remember = rememberMe]

clearToken(a) == [a EXCEPT !.token = "none", !.remember = FALSE]

isAuthenticated(a) == a.token # "none"

\* RequireAuth: <Home/> when authenticated, else the redirect to /login.
RequireAuth(a) == IF isAuthenticated(a) THEN "home" ELSE "login"

\* The form is submitted: handleLogin up to await signInWithPasswordLog.
LoginSubmit(rememberMe) ==
  /\ auth.route = "login"
  /\ auth.count < MaxLogins
  /\ auth' = [auth EXCEPT
       !.error = "null",
       !.count = @ + 1,
       !.logins = Append(@, [pc |-> "signIn", user |-> "none", token |-> "none",
                             remember |-> rememberMe])]
  /\ UNCHANGED << adminVars, dash, ann >>

\* The sign-in returns an error, or no session, or no user.
SignInFail(i) ==
  /\ i \in 1..Len(auth.logins)
  /\ auth.logins[i].pc = "signIn"
  /\ auth' = [auth EXCEPT !.error = "Invalid credentials",
                          !.logins = removeAt(@, i)]
  /\ UNCHANGED << adminVars, dash, ann >>

\* The sign-in returns the session of user u; the select of the role is sent.
SignInOk(i, u) ==
  /\ i \in 1..Len(auth.logins)
  /\ auth.logins[i].pc = "signIn"
  /\ auth' = [auth EXCEPT !.session = u,
                          !.logins[i].pc = "profile",
                          !.logins[i].user = u,
                          !.logins[i].token = u]
  /\ UNCHANGED << adminVars, dash, ann >>

\* The select of the role returns: sign out, or save the token and navigate
\* to /home/dashboard, which RequireAuth guards.
ProfileResult(i, o) ==
  /\ i \in 1..Len(auth.logins)
  /\ auth.logins[i].pc = "profile"
  /\ o \in ProfileOutcomes(auth.logins[i].user)
  /\ IF profileRejected(o)
       THEN auth' = [auth EXCEPT !.logins[i].pc = "signOut"]
       ELSE LET saved == saveToken(auth, auth.logins[i].token, auth.logins[i].remember)
            IN  auth' = [saved EXCEPT !.route = RequireAuth(saved),
                                      !.logins = removeAt(@, i)]
  /\ UNCHANGED << adminVars, dash, ann >>

\* supabase.auth.signOut() returns.
SignOutDone(i) ==
  /\ i \in 1..Len(auth.logins)
  /\ auth.logins[i].pc = "signOut"
  /\ auth' = [auth EXCEPT !.session = "none",
                          !.error = "Account is not an admin",
                          !.logins = removeAt(@, i)]
  /\ UNCHANGED << adminVars, dash, ann >>

\* Home.handleLogout up to await signOutWithLog.
LogoutClick ==
  /\ auth.route = "home"
  /\ ~auth.logout
  /\ auth' = [auth EXCEPT !.logout = TRUE]
  /\ UNCHANGED << adminVars, dash, ann >>

\* signOutWithLog returns: clearToken and navigate to /login.
LogoutDone ==
  /\ auth.logout
  /\ auth' = [clearToken(auth) EXCEPT !.session = "none", !.route = "login",
                                      !.logout = FALSE]
  /\ UNCHANGED << adminVars, dash, ann >>

\* The address /home/... is opened: RequireAuth renders Home or redirects.
VisitHome ==
  /\ auth.route = "login"
  /\ auth' = [auth EXCEPT !.route = RequireAuth(auth)]
  /\ UNCHANGED << adminVars, dash, ann >>

\* The address /login is opened.
VisitLogin ==
  /\ auth.route = "home"
  /\ auth' = [auth EXCEPT !.route = "login"]
  /\ UNCHANGED << adminVars, dash, ann >>

\* The application starts with no token, or with the token a remembered
\* login left.
InitLogin ==
  /\ AdminIdle
  /\ auth \in { NoAuth, saveToken(NoAuth, "alice", TRUE) }
  /\ dash = NoDash
  /\ ann = NoAnn

NextLogin ==
  \/ \E rememberMe \in BOOLEAN : LoginSubmit(rememberMe)
  \/ \E i \in 1..Len(auth.logins) : SignInFail(i)
  \/ \E i \in 1..Len(auth.logins) : \E u \in Users : SignInOk(i, u)
  \/ \E i \in 1..Len(auth.logins) :
       \E o \in ProfileOutcomes(auth.logins[i].user) : ProfileResult(i, o)
  \/ \E i \in 1..Len(auth.logins) : SignOutDone(i)
  \/ LogoutClick
  \/ LogoutDone
  \/ VisitHome
  \/ VisitLogin

SpecLogin == InitLogin /\ [][NextLogin]_vars

(***************************************************************************)
(* C22.  Access is gated by role.                                          *)
(***************************************************************************)
\* C22: a token is saved, and the login page left for the home area, only by
\* a login whose sign-in succeeded and whose user has the profile role
\* 'admin'; a login whose role lookup fails or gives another role signs the
\* session out and saves no token; and the home routes are shown only while
\* a token is kept.
C22_AccessGatedByRole ==
  /\ [](auth.route = "home" => auth.token # "none")
  /\ [][ /\ (auth'.token # auth.token /\ auth'.token # "none") =>
              \E i \in 1..Len(auth.logins) :
                /\ auth.logins[i].pc = "profile"
                /\ auth.logins[i].user \in DOMAIN roleOf
                /\ roleOf[auth.logins[i].user] = "admin"
                /\ auth'.token = auth.logins[i].token
                /\ auth'.route = "home"
         /\ \A i \in 1..Len(auth.logins) :
              \A o \in ProfileOutcomes(auth.logins[i].user) :
                (ProfileResult(i, o) /\ (o.profileError \/ o.profile # "admin")) =>
                  /\ auth'.token = auth.token
                  /\ auth'.route = auth.route
                  /\ auth'.logins[i].pc = "signOut"
         /\ \A i \in 1..Len(auth.logins) :
              SignOutDone(i) => (auth'.session = "none" /\ auth'.token = auth.token) ]_vars

C22_Witness ==
  /\ auth.route = "login"
  /\ auth.token = "none"
  /\ auth.session = "none"
  /\ auth.error = "Account is not an admin"
  /\ auth.count = 1
  /\ auth.logins = <<>>

(***************************************************************************)
(* Dashboard: loadDashboard with the geocoding of the map markers, and the *)
(* reload timer of the realtime subscriptions.  Time is counted in ticks;  *)
(* the reload delay (400 ms) is Delay ticks.                               *)
(***************************************************************************)
MaxEvents == 2

Delay == 2

\* A row of profiles: its id, its numeric lat/lng if any, and the text
\* fields getTextKey looks at, in its order.
ProfileRow(id, position, places) == [id |-> id, position |-> position, places |-> places]

NoPosition == << >>

Tables ==
  { << >>,
    << ProfileRow("a1", NoPosition, << <<"M","a","n","i","l","a">> >>),
       ProfileRow("a2", NoPosition, << <<" ","m","a","n","i","l","a"," ">> >>) >>,
    << ProfileRow("a1", NoPosition, << <<"M","a","n","i","l","a">> >>),
       ProfileRow("a3", NoPosition, << <<"N","/","A">>, <<"C","e","b","u">> >>) >>,
    << ProfileRow("a4", <<10, 123>>, << <<"C","e","b","u">> >>),
       ProfileRow("a1", NoPosition, << <<"M","a","n","i","l","a">> >>) >>,
    << ProfileRow("a5", NoPosition, << << >>, <<"n","o","n","e">> >>),
       ProfileRow("a3", NoPosition, << <<"N","/","A">>, <<"C","e","b","u">> >>) >>,
    << ProfileRow("a3", NoPosition, << <<"N","/","A">>, <<"C","e","b","u">> >>),
       ProfileRow("a6", NoPosition, << <<" "," ">>, <<"C","e","b","u">> >>) >> }

\* What localStorage holds under 'alumni-geocode-cache-v1' at the start.
Storages == { << >>, (<<"m","a","n","i","l","a">> :> <<14, 121>>) }

\* The first result of the geocoding service for a query.
Coordinates == <<14, 121>>

Placeholders == { <<"n","/","a">>, <<"n","a">>, <<"n","o","n","e">>, <<"n","u","l","l">>, <<"u","n","k","n","o","w","n">> }

\* x && String(x).trim() && !/^n\/?a$/i.test(x) && !/^(n\/a|na|none|null|unknown)$/i.test(x)
usablePlace(x) ==
  /\ x # << >>
  /\ trim(x) # << >>
  /\ toLowerCase(x) \notin Placeholders

RECURSIVE findPlace(_, _)
findPlace(places, i) ==
  IF i > Len(places) THEN << >>
  ELSE IF usablePlace(places[i]) THEN trim(places[i])
  ELSE findPlace(places, i + 1)

getTextKey(r) == findPlace(r.places, 1)

cachePut(cache, k, v) == [x \in (DOMAIN cache) \cup {k} |-> IF x = k THEN v ELSE cache[x]]

\* One row of the first pass: a marker from lat/lng or from the cache, or
\* an entry of toGeocode.
scanRow(acc, r, cache) ==
  IF r.position # NoPosition
    THEN [acc EXCEPT !.markers = Append(@, [id |-> r.id, position |-> r.position])]
  ELSE IF getTextKey(r) = << >> THEN acc
  ELSE IF toLowerCase(getTextKey(r)) \in DOMAIN cache
    THEN [acc EXCEPT !.markers = Append(@, [id |-> r.id,
                                            position |-> cache[toLowerCase(getTextKey(r))]])]
  ELSE [acc EXCEPT !.queue = Append(@, [key |-> getTextKey(r), id |-> r.id])]

RECURSIVE scanRows(_, _, _, _)
scanRows(rs, i, cache, acc) ==
  IF i > Len(rs) THEN acc
  ELSE scanRows(rs, i + 1, cache, scanRow(acc, rs[i], cache))

\* initialMarkers and toGeocode.
firstPass(rs, cache) == scanRows(rs, 1, cache, [markers |-> << >>, queue |-> << >>])

NewLoad == [pc |-> "rows", cache |-> << >>, queue |-> << >>, i |-> 0, newly |-> << >>]

\* loadDashboard(): loadViaProfiles up to the profiles it awaits.
loadDashboard(d) == [d EXCEPT !.loads = Append(@, NewLoad), !.started = @ + 1]

\* The change handler without its clearTimeout.
scheduleReloadNoClear(d) ==
  [d EXCEPT !.timers = @ \cup { [id |-> d.nextId, left |-> Delay] },
            !.ref = d.nextId,
            !.nextId = @ + 1]

\* if (reloadTimer.current) clearTimeout(reloadTimer.current);
\* reloadTimer.current = setTimeout(loadDashboard, 400)
scheduleReload(d) ==
  [d EXCEPT !.timers = { t \in @ : t.id # d.ref } \cup { [id |-> d.nextId, left |-> Delay] },
            !.ref = d.nextId,
            !.nextId = @ + 1]

\* The cleanup of the effect: the timer of the ref is cleared, the channels
\* are removed.
cleanup(d) ==
  [d EXCEPT !.timers = { t \in @ : t.id # d.ref }, !.subscribed = FALSE]

\* The effect: loadDashboard() and the two subscriptions.
effect(d) == [loadDashboard(d) EXCEPT !.subscribed = TRUE]

\* The queries of a load return the rows: the cache is read from
\* localStorage, the first pass sets the markers, and the first geocoding
\* request is sent if toGeocode is not empty.
LoadRows(l) ==
  /\ l \in 1..Len(dash.loads)
  /\ dash.loads[l].pc = "rows"
  /\ LET cache == dash.storage
         fp    == firstPass(dash.table, cache)
     IN  dash' = [dash EXCEPT
           !.markers = fp.markers,
           !.loads = IF Len(fp.queue) = 0
                       THEN removeAt(@, l)
                       ELSE [@ EXCEPT ![l] = [pc |-> "fetch", cache |-> cache,
                                              queue |-> fp.queue, i |-> 1,
                                              newly |-> << >>]]]
  /\ UNCHANGED << adminVars, auth, ann >>

\* The select of the profiles returns an error, which loadDashboard catches.
LoadRowsFail(l) ==
  /\ l \in 1..Len(dash.loads)
  /\ dash.loads[l].pc = "rows"
  /\ dash' = [dash EXCEPT !.loadError = "load error", !.loads = removeAt(@, l)]
  /\ UNCHANGED << adminVars, auth, ann >>

\* geocodeOne resolves with a result: the cache takes it under the
\* lowercased key and is written to localStorage; the marker is kept.
GeoFound(l) ==
  /\ l \in 1..Len(dash.loads)
  /\ dash.loads[l].pc = "fetch"
  /\ LET ld    == dash.loads[l]
         item  == ld.queue[ld.i]
         cache == cachePut(ld.cache, toLowerCase(item.key), Coordinates)
     IN  dash' = [dash EXCEPT
           !.storage = cache,
           !.loads[l] = [ld EXCEPT !.cache = cache, !.pc = "delay",
                                   !.newly = Append(@, [id |-> item.id,
                                                        position |-> Coordinates])]]
  /\ UNCHANGED << adminVars, auth, ann >>

\* geocodeOne resolves with null (no result), or rejects and the error is
\* ignored.
GeoNotFound(l, rejected) ==
  /\ l \in 1..Len(dash.loads)
  /\ dash.loads[l].pc = "fetch"
  /\ dash' = [dash EXCEPT !.loads[l].pc = "delay"]
  /\ UNCHANGED << adminVars, auth, ann >>

\* The 350 ms pause ends: the next request is sent, or the loop ends and the
\* new markers are appended.
GeoNext(l) ==
  /\ l \in 1..Len(dash.loads)
  /\ dash.loads[l].pc = "delay"
  /\ LET ld == dash.loads[l]
     IN  IF ld.i < Len(ld.queue)
           THEN dash' = [dash EXCEPT !.loads[l].pc = "fetch", !.loads[l].i = @ + 1]
           ELSE dash' = [dash EXCEPT
                  !.markers = IF Len(ld.newly) > 0 THEN @ \o ld.newly ELSE @,
                  !.loads = removeAt(@, l)]
  /\ UNCHANGED << adminVars, auth, ann >>

\* A change of profiles or activity_logs is notified.
ChangeEvent(table) ==
  /\ dash.subscribed
  /\ dash.events < MaxEvents
  /\ dash' = [scheduleReload(dash) EXCEPT !.events = @ + 1, !.sinceEvent = 0,
                                          !.reloads = 0]
  /\ UNCHANGED << adminVars, auth, ann >>

\* One tick passes; a timer that is due fires before the next tick.
Tick ==
  /\ \A t \in dash.timers : t.left > 0
  /\ dash.timers # {} \/ dash.sinceEvent < Delay
  /\ dash' = [dash EXCEPT
       !.timers = { [t EXCEPT !.left = @ - 1] : t \in dash.timers },
       !.sinceEvent = IF @ < Delay THEN @ + 1 ELSE @]
  /\ UNCHANGED << adminVars, auth, ann >>

\* A timer is due: loadDashboard is called.
TimerFire(id) ==
  /\ \E t \in dash.timers : t.id = id /\ t.left = 0
  /\ dash' = [loadDashboard([dash EXCEPT !.timers = { t \in @ : t.id # id }])
                EXCEPT !.reloads = @ + 1]
  /\ UNCHANGED << adminVars, auth, ann >>

\* The college filter is changed: the cleanup of the effect, then the effect.
FilterChange ==
  /\ dash.mounted
  /\ dash.events < MaxEvents
  /\ dash' = [effect(cleanup(dash)) EXCEPT !.events = @ + 1]
  /\ UNCHANGED << adminVars, auth, ann >>

\* The dashboard is left: the cleanup of the effect.
Unmount ==
  /\ dash.mounted
  /\ dash' = [cleanup(dash) EXCEPT !.mounted = FALSE]
  /\ UNCHANGED << adminVars, auth, ann >>

\* After the mount: the effect has run.
InitDash ==
  /\ AdminIdle
  /\ auth = NoAuth
  /\ ann = NoAnn
  /\ \E tb \in Tables : \E st \in Storages :
       dash = effect([NoDash EXCEPT !.mounted = TRUE, !.table = tb, !.storage = st])

LoadSteps ==
  \/ \E l \in 1..Len(dash.loads) : LoadRows(l)
  \/ \E l \in 1..Len(dash.loads) : LoadRowsFail(l)
  \/ \E l \in 1..Len(dash.loads) : GeoFound(l)
  \/ \E l \in 1..Len(dash.loads) : \E rejected \in BOOLEAN : GeoNotFound(l, rejected)
  \/ \E l \in 1..Len(dash.loads) : GeoNext(l)

NextDash ==
  \/ LoadSteps
  \/ \E table \in {"profiles", "activity_logs"} : ChangeEvent(table)
  \/ Tick
  \/ \E t \in dash.timers : TimerFire(t.id)
  \/ FilterChange
  \/ Unmount

SpecDash == InitDash /\ [][NextDash]_vars

\* Time passes, and a timer that is due fires.
TimePasses == Tick \/ \E t \in dash.timers : TimerFire(t.id)

\* After the mount, for one content of profiles and an empty cache.
InitReload ==
  /\ AdminIdle
  /\ auth = NoAuth
  /\ ann = NoAnn
  /\ dash = effect([NoDash EXCEPT
                      !.mounted = TRUE,
                      !.table = << ProfileRow("a4", <<10, 123>>, << <<"C","e","b","u">> >>),
                                   ProfileRow("a1", NoPosition,
                                              << <<"M","a","n","i","l","a">> >>) >>])

SpecReload == InitReload /\ [][NextDash]_vars /\ WF_vars(TimePasses)

(***************************************************************************)
(* C27.  Geocoding requests and the geocode cache.                         *)
(***************************************************************************)
\* The key, lowercased, of the request a load has in flight.
requestKey(ld) == toLowerCase(ld.queue[ld.i].key)

\* No request in flight is for a key that the cache of its load holds.
NoRequestForCachedKey ==
  \A l \in 1..Len(dash.loads) :
    dash.loads[l].pc = "fetch" => requestKey(dash.loads[l]) \notin DOMAIN dash.loads[l].cache

\* A result found is in the cache under the lowercased key and in
\* localStorage before the next request; no result, or an error, changes
\* neither the cache nor the markers.
ResultsCached ==
  [][ /\ \A l \in 1..Len(dash.loads) : GeoFound(l) =>
           /\ requestKey(dash.loads[l]) \in DOMAIN dash'.loads[l].cache
           /\ dash'.loads[l].cache[requestKey(dash.loads[l])] = Coordinates
           /\ dash'.storage = dash'.loads[l].cache
           /\ dash'.loads[l].pc = "delay"
      /\ \A l \in 1..Len(dash.loads) : \A rejected \in BOOLEAN : GeoNotFound(l, rejected) =>
           /\ dash'.loads[l].cache = dash.loads[l].cache
           /\ dash'.loads[l].newly = dash.loads[l].newly
           /\ dash'.storage = dash.storage
           /\ dash'.markers = dash.markers ]_vars

\* C27: during a load no geocoding request is in flight for a key,
\* lowercased, that the cache holds, keys cached earlier in the same load
\* included; every result found is cached under the lowercased key and
\* persisted before the next request; no result, or an error, adds no cache
\* entry and no marker.
C27_GeocodeCache == []NoRequestForCachedKey /\ ResultsCached

(***************************************************************************)
(* C28.  The reload timer.                                                 *)
(***************************************************************************)
\* C28: at most one reload timer is pending; a change event leaves its own
\* new timer, with the full delay, as the only one pending; a timer fires
\* only when the delay has passed since the last event, and once for the
\* events of a burst; the cleanup of the effect leaves no timer pending, and
\* none fires after the dashboard is left; a pending timer is followed by a
\* reload or by its cancellation.
C28_DebouncedReload ==
  /\ [](Cardinality(dash.timers) <= 1)
  /\ [](~dash.mounted => dash.timers = {})
  /\ [][ /\ \A table \in {"profiles", "activity_logs"} : ChangeEvent(table) =>
              /\ dash'.timers = { [id |-> dash'.ref, left |-> Delay] }
              /\ \A t \in dash.timers : t.id # dash'.ref
         /\ \A t \in dash.timers : TimerFire(t.id) =>
              /\ dash.sinceEvent = Delay
              /\ dash.reloads = 0
              /\ dash'.started = dash.started + 1
         /\ (FilterChange \/ Unmount) => dash'.timers = {} ]_vars
  /\ (dash.timers # {} ~> dash.timers = {})

C28_Witness ==
  /\ dash.mounted
  /\ dash.events = 2
  /\ dash.nextId = 3
  /\ dash.reloads = 1
  /\ dash.started = 2
  /\ dash.timers = {}

(***************************************************************************)
(* AnnouncementsAdmin: the dialog, its form, and save.                     *)
(*                                                                         *)
(* A row of the announcements table is [id, published, published_at,      *)
(* post_url]; title, body, audience and image_url pass through save        *)
(* without a decision being taken on them and are left out.  del is not    *)
(* modelled.  rows is kept as a set: the list's order is the backend's     *)
(* and the handlers below read a row only when it is clicked.              *)
(***************************************************************************)
MaxSaves == 1

\* What an administrator may type into the post URL field.
PostUrls ==
  { <<>>,
    <<" ">>,
    <<"x">>,
    <<" ","H","T","T","P","S",":","/","/","x">> }

\* The table when the page is mounted: a published announcement with its
\* publication time, a draft, and a published one whose time was never set.
AnnTable ==
  << [id |-> 1, published |-> TRUE, published_at |-> 1,
      post_url |-> <<"h","t","t","p",":","/","/","x">>],
     [id |-> 2, published |-> FALSE, published_at |-> NullTime,
      post_url |-> NullStr],
     [id |-> 3, published |-> TRUE, published_at |-> NullTime,
      post_url |-> NullStr] >>

startsWith(s, p) == Len(s) >= Len(p) /\ SubSeq(s, 1, Len(p)) = p

\* /^https?:\/\//i.test(s)
hasHttpScheme(s) ==
  \/ startsWith(toLowerCase(s), <<"h","t","t","p",":","/","/">>)
  \/ startsWith(toLowerCase(s), <<"h","t","t","p","s",":","/","/">>)

\* maybeUrl && !/^https?:\/\//i.test(maybeUrl), maybeUrl the trimmed field.
urlRejected(post_url) ==
  trim(post_url) # <<>> /\ ~hasHttpScheme(trim(post_url))

savePayloadAlwaysNow(form, editing, clock) ==
  [published |-> form.published,
   published_at |-> IF form.published THEN clock ELSE NullTime,
   post_url |-> IF trim(form.post_url) # <<>> THEN trim(form.post_url)
                ELSE NullStr]

\* The object save sends: payload for an insert, next for an update.
savePayload(form, editing, clock) ==
  LET payload ==
        [published |-> form.published,
         published_at |-> IF form.published THEN clock ELSE NullTime,
         post_url |-> IF trim(form.post_url) # <<>> THEN trim(form.post_url)
                      ELSE NullStr]
  IN  IF /\ editing # NoAnn.editing
         /\ editing.published
         /\ form.published
         /\ editing.published_at # NullTime
        THEN [payload EXCEPT !.published_at = editing.published_at]
        ELSE payload

\* The dialog is used while a further save may still be started.
openCreate ==
  /\ ann.table # <<>>
  /\ Len(ann.calls) < MaxSaves
  /\ ann' = [ann EXCEPT !.editing = NoAnn.editing, !.form = NoAnn.form,
                        !.dlgOpen = TRUE]
  /\ UNCHANGED << adminVars, auth, dash >>

openEdit(row) ==
  /\ row \in ann.rows
  /\ Len(ann.calls) < MaxSaves
  /\ ann' = [ann EXCEPT
       !.editing = row,
       !.form = [published |-> row.published,
                 post_url |-> IF falsyStr(row.post_url) THEN <<>>
                              ELSE row.post_url],
       !.dlgOpen = TRUE]
  /\ UNCHANGED << adminVars, auth, dash >>

\* The dialog's onClose and its Cancel button.
CloseDialog ==
  /\ ann.dlgOpen
  /\ ann' = [ann EXCEPT !.dlgOpen = FALSE]
  /\ UNCHANGED << adminVars, auth, dash >>

SetPostUrl(u) ==
  /\ ann.dlgOpen
  /\ Len(ann.calls) < MaxSaves
  /\ ann' = [ann EXCEPT !.form.post_url = u]
  /\ UNCHANGED << adminVars, auth, dash >>

SetPublished(b) ==
  /\ ann.dlgOpen
  /\ Len(ann.calls) < MaxSaves
  /\ ann' = [ann EXCEPT !.form.published = b]
  /\ UNCHANGED << adminVars, auth, dash >>

\* save up to its first await: a rejected URL ends it with the message; any
\* other starts a call that keeps the form and the row of this render.
SaveClick ==
  /\ ann.dlgOpen
  /\ IF urlRejected(ann.form.post_url)
       THEN ann' = [ann EXCEPT !.error = "invalid url", !.loading = FALSE]
       ELSE /\ Len(ann.calls) < MaxSaves
            /\ ann' = [ann EXCEPT
                 !.loading = TRUE,
                 !.error = "null",
                 !.calls = Append(@, [pc |-> "getUser", form |-> ann.form,
                                      editing |-> ann.editing, request |-> 0])]
  /\ UNCHANGED << adminVars, auth, dash >>

\* getUser resolves: the payload is built with the time of this moment and
\* the insert or the update is sent.
SaveGetUser(i) ==
  /\ ann.calls[i].pc = "getUser"
  /\ LET c == ann.calls[i]
         request ==
           [kind |-> IF c.editing # NoAnn.editing THEN "update" ELSE "insert",
            id |-> c.editing.id,
            payload |-> savePayload(c.form, c.editing, ann.clock),
            form |-> c.form, editing |-> c.editing, at |-> ann.clock]
     IN  ann' = [ann EXCEPT !.calls[i].pc = "write",
                            !.calls[i].request = Len(ann.sent) + 1,
                            !.sent = Append(@, request)]
  /\ UNCHANGED << adminVars, auth, dash >>

\* The write succeeded: the table takes the payload, the dialog closes and
\* load starts.
SaveWritten(i) ==
  /\ ann.calls[i].pc = "write"
  /\ LET q == ann.sent[ann.calls[i].request]
         written(id) == [id |-> id, published |-> q.payload.published,
                         published_at |-> q.payload.published_at,
                         post_url |-> q.payload.post_url]
     IN  ann' = [ann EXCEPT
           !.table = IF q.kind = "update"
                       THEN [@ EXCEPT ![q.id] = written(q.id)]
                       ELSE Append(@, written(Len(@) + 1)),
           !.dlgOpen = FALSE,
           !.loading = TRUE,
           !.error = "null",
           !.calls[i].pc = "load"]
  /\ UNCHANGED << adminVars, auth, dash >>

SaveWriteFail(i) ==
  /\ ann.calls[i].pc = "write"
  /\ ann' = [ann EXCEPT !.error = "save failed", !.loading = FALSE,
                        !.calls[i].pc = "done"]
  /\ UNCHANGED << adminVars, auth, dash >>

\* load of the save resolves with the table's rows.
SaveLoadDone(i) ==
  /\ ann.calls[i].pc = "load"
  /\ ann' = [ann EXCEPT
       !.rows = { ann.table[k] : k \in 1..Len(ann.table) },
       !.loading = FALSE,
       !.calls[i].pc = "done"]
  /\ UNCHANGED << adminVars, auth, dash >>

SaveLoadFail(i) ==
  /\ ann.calls[i].pc = "load"
  /\ ann' = [ann EXCEPT !.error = "load failed", !.loading = FALSE,
                        !.calls[i].pc = "done"]
  /\ UNCHANGED << adminVars, auth, dash >>

\* Time passes; one step per save started is enough to tell the times apart.
AnnTick ==
  /\ ann.clock < NoAnn.clock + Len(ann.calls)
  /\ ann' = [ann EXCEPT !.clock = @ + 1]
  /\ UNCHANGED << adminVars, auth, dash >>

\* The page after its first load.
InitAnn ==
  /\ AdminIdle
  /\ auth = NoAuth
  /\ dash = NoDash
  /\ ann = [NoAnn EXCEPT !.table = AnnTable,
                         !.rows = { AnnTable[k] : k \in 1..Len(AnnTable) }]

NextAnn ==
  \/ openCreate
  \/ \E row \in ann.rows : openEdit(row)
  \/ CloseDialog
  \/ \E u \in PostUrls : SetPostUrl(u)
  \/ \E b \in BOOLEAN : SetPublished(b)
  \/ SaveClick
  \/ \E i \in 1..Len(ann.calls) : SaveGetUser(i)
  \/ \E i \in 1..Len(ann.calls) : SaveWritten(i)
  \/ \E i \in 1..Len(ann.calls) : SaveWriteFail(i)
  \/ \E i \in 1..Len(ann.calls) : SaveLoadDone(i)
  \/ \E i \in 1..Len(ann.calls) : SaveLoadFail(i)
  \/ AnnTick

SpecAnn == InitAnn /\ [][NextAnn]_vars

(***************************************************************************)
(* C29: what save sends.                                                   *)
(***************************************************************************)
\* The request q comes from editing a published announcement that has a
\* publication time, with the switch left on.
StaysPublished(q) ==
  /\ q.kind = "update"
  /\ q.editing.published
  /\ q.editing.published_at # NullTime
  /\ q.form.published

\* The request q publishes what was not published: a new announcement, or
\* one edited from a draft.
NewlyPublishes(q) ==
  /\ q.form.published
  /\ \/ q.kind = "insert"
     \/ ~q.editing.published

PublicationTimes ==
  \A r \in 1..Len(ann.sent) :
    LET q == ann.sent[r]
    IN  /\ StaysPublished(q) => q.payload.published_at = q.editing.published_at
        /\ NewlyPublishes(q) => q.payload.published_at = q.at
        /\ ~q.form.published => q.payload.published_at = NullTime

\* s begins with http:// or https:// exactly as written.
beginsWithScheme(s) ==
  \E p \in { <<"h","t","t","p",":","/","/">>,
             <<"h","t","t","p","s",":","/","/">> } :
    /\ Len(s) >= Len(p)
    /\ \A k \in 1..Len(p) : s[k] = p[k]

\* s begins with http:// or https:// in some mix of upper and lower case.
beginsWithSchemeAnyCase(s) ==
  \E p \in { <<"h","t","t","p",":","/","/">>,
             <<"h","t","t","p","s",":","/","/">> } :
    /\ Len(s) >= Len(p)
    /\ \A k \in 1..Len(p) : s[k] = p[k] \/ (s[k] \in DOMAIN LowerOf /\ LowerOf[s[k]] = p[k])

BadUrlAsStated(u) == u # <<>> /\ ~beginsWithScheme(u)

BadUrlTrimmed(u) == trim(u) # <<>> /\ ~beginsWithSchemeAnyCase(trim(u))

\* A save of the form now shown starts nothing and leaves the dialog open.
SaveRefused ==
  /\ SaveClick
  /\ ann'.calls = ann.calls
  /\ ann'.sent = ann.sent
  /\ ann'.dlgOpen

\* C29 as stated: an edit of a published announcement with a publication time
\* that stays published sends the original published_at; a save that newly
\* publishes sends the current time; a save with published off sends null;
\* and a save whose post URL is non-empty and does not start with http:// or
\* https:// sends no insert or update and keeps the dialog open.
C29_SaveAsStated ==
  /\ [](PublicationTimes
        /\ \A r \in 1..Len(ann.sent) : ~BadUrlAsStated(ann.sent[r].form.post_url))
  /\ [][SaveClick /\ BadUrlAsStated(ann.form.post_url) => SaveRefused]_vars

\* C29 amended: the same three statements about published_at; and a save
\* whose post URL, with the whitespace at its ends removed, is non-empty and
\* does not start with http:// or https:// in any letter case sends no insert
\* or update and keeps the dialog open.
C29_SavePublicationTime ==
  /\ [](PublicationTimes
        /\ \A r \in 1..Len(ann.sent) : ~BadUrlTrimmed(ann.sent[r].form.post_url))
  /\ [][SaveClick /\ BadUrlTrimmed(ann.form.post_url) => SaveRefused]_vars

\* C29 witness: an edit of a published announcement was saved at a later time
\* with the switch on and another post URL, the request carried the original
\* time, and the table took both.
C29_Witness ==
  \E r \in 1..Len(ann.sent) :
    /\ StaysPublished(ann.sent[r])
    /\ ann.sent[r].at # ann.sent[r].editing.published_at
    /\ ann.sent[r].payload.published_at = ann.sent[r].editing.published_at
    /\ ann.table[ann.sent[r].id].published_at = ann.sent[r].editing.published_at
    /\ ann.table[ann.sent[r].id].post_url # ann.sent[r].editing.post_url
    /\ \E i \in 1..Len(ann.calls) : ann.calls[i].pc = "done"

====
